---- MODULE Spec2Model ----
(***************************************************************************)
(* Model of the Ringba RPC monitor (src/ringba_bot_production.py): the     *)
(* run orchestrator main(), the recursive retry of get_csv_values(), the   *)
(* snapshot store behind save_report_data()/get_previous_report_data(),    *)
(* the comparative reporter and the HTTP trigger that starts run threads.  *)
(*                                                                         *)
(* Conventions.  Python strings that the code computes are sequences of    *)
(* one-character strings, so that formatting is modelled by what it does.  *)
(* Python floats are exact rationals [tag, num, den] in lowest terms; RPC  *)
(* amounts are counted in cents.  None is the record [tag |-> "None"].     *)
(***************************************************************************)
EXTENDS Integers, Sequences, FiniteSets, TLC

VARIABLES
    pc,              \* per run: position in main()
    frames,          \* per run: the call stack of get_csv_values()
    ret,             \* per run: what the outermost get_csv_values() gave main()
    m,               \* per run: the locals of main()
    attempts,        \* per run: sessions get_csv_values() has started
    sent,            \* per run: calls of send_slack_notification, by template,
                     \* and the data reports the webhook took
    done,            \* per run: the steps of main() completed so far
    last_run_result, \* the global last_run_result
    store,           \* the rows of the table ringba_reports
    budget,          \* the failures the environment may still inject
    mainThread,      \* position of the __main__ block
    jobs,            \* the jobs registered with the schedule module
    call             \* a pure function under test: its arguments and result

vars == <<pc, frames, ret, m, attempts, sent, done, last_run_result, store,
          budget, mainThread, jobs, call>>

progVars == <<pc, frames, ret, m, attempts, sent, done, last_run_result, store,
              budget, mainThread, jobs>>

(***************************************************************************)
(* Bounds of the model and constants of the program.                       *)
(***************************************************************************)
MaxHttpRuns == 1
MaxCloseFailures == 2
MaxServerFailures == 1
MaxVal == 6
MaxRows == 2
MaxLines == 41
MAX_RETRIES == 4

None == [tag |-> "None"]

(***************************************************************************)
(* Python numbers.                                                         *)
(***************************************************************************)
Abs(x) == IF x < 0 THEN -x ELSE x

RECURSIVE GCD(_, _)
GCD(a, b) == IF b = 0 THEN a ELSE GCD(b, a % b)

\* The float with the value n/d (d # 0), in lowest terms with den > 0.
Float(n, d) ==
    LET g == GCD(Abs(n), Abs(d))
        s == IF d < 0 THEN -1 ELSE 1
    IN  [tag |-> "float", num |-> (s * n) \div g, den |-> (s * d) \div g]

ZeroDivisionError == [tag |-> "ZeroDivisionError"]

\* Python's a / b on numbers.
TrueDiv(a, b) == IF b = 0 THEN ZeroDivisionError ELSE Float(a, b)

\* Python's f * k for a float f and a number k; an exception propagates.
Times(f, k) == IF f.tag = "float" THEN Float(f.num * k, f.den) ELSE f

(***************************************************************************)
(* calculate_percentage_difference                                         *)
(***************************************************************************)
\* Mutant: the division without the test of previous_value.
PctNoZeroGuard(current_value, previous_value) ==
    Times(TrueDiv(current_value - previous_value, previous_value), 100)

calculate_percentage_difference(current_value, previous_value) ==
    IF previous_value = 0
    THEN IF current_value = 0 THEN Float(0, 1) ELSE Float(100, 1)
    ELSE Times(TrueDiv(current_value - previous_value, previous_value), 100)

(***************************************************************************)
(* Strings and get_time_slot                                               *)
(***************************************************************************)
Digit == <<"0", "1", "2", "3", "4", "5", "6", "7", "8", "9">>

\* str(n) for n >= 0, as format() writes it in an f-string.
RECURSIVE Str(_)
Str(n) == IF n < 10 THEN <<Digit[n + 1]>>
          ELSE Str(n \div 10) \o <<Digit[(n % 10) + 1]>>

SLOT_10AM == <<"1", "0", "A", "M">>
SLOT_2PM == <<"2", "P", "M">>
SLOT_430PM == <<"4", ":", "3", "0", "P", "M">>

\* Mutant: the half-hour boundary taken inclusively.
TimeSlotInclusiveHalf(run_time) ==
    LET hour == run_time.hour
        minute == run_time.minute
    IN  IF hour = 10 /\ minute <= 30 THEN SLOT_10AM
        ELSE IF hour = 14 /\ minute <= 30 THEN SLOT_2PM
        ELSE IF hour = 16 /\ minute >= 30 THEN SLOT_430PM
        ELSE Str(hour) \o <<":">> \o Str(minute)

get_time_slot(run_time) ==
    LET hour == run_time.hour
        minute == run_time.minute
    IN  IF hour = 10 /\ minute < 30 THEN SLOT_10AM
        ELSE IF hour = 14 /\ minute < 30 THEN SLOT_2PM
        ELSE IF hour = 16 /\ minute >= 30 THEN SLOT_430PM
        ELSE Str(hour) \o <<":">> \o Str(minute)

(***************************************************************************)
(* Data: TargetMetric rows, the extractions the provider may serve, the    *)
(* wall-clock times a run may read, the snapshots of the store.            *)
(***************************************************************************)
Row(t, rpc, inc, conv) ==
    [Target |-> t, RPC |-> rpc, Incoming |-> inc, Converted |-> conv]

MorningData == <<Row("Acme", 1000, 50, 5)>>
AfternoonData == <<Row("Acme", 1200, 55, 5), Row("Beta", 800, 0, 3)>>
DuplicateData ==
    <<Row("Beta", 0, 0, 0), Row("Acme", 900, 40, 0), Row("Acme", 1000, 50, 5)>>

Datasets == {MorningData, AfternoonData, DuplicateData}

T(h, mi) == [hour |-> h, minute |-> mi]

\* The US/Eastern times datetime.now(eastern) may return to a run.
Clock == {T(10, 29), T(10, 30), T(14, 5), T(14, 30), T(16, 29), T(16, 30)}

NamedSlots == {SLOT_10AM, SLOT_2PM, SLOT_430PM}

\* The scheduled time of a named slot, used for the snapshots found at start.
SlotTime(slot) ==
    IF slot = SLOT_10AM THEN T(10, 0)
    ELSE IF slot = SLOT_2PM THEN T(14, 0) ELSE T(16, 30)

\* A Python list that may also be None.
List(s) == [tag |-> "list", items |-> s]

\* Python truthiness of a list-or-None.
Truthy(v) == v.tag = "list" /\ v.items # <<>>

\* No string (None where the code expects a slot label).
NoSlot == <<>>

Runs == 0 .. MaxHttpRuns
HttpRuns == 1 .. MaxHttpRuns

(***************************************************************************)
(* The snapshot store: table ringba_reports, unique key time_slot.         *)
(***************************************************************************)
Snapshot(slot, time, targets) ==
    [time_slot |-> slot, timestamp |-> time, targets |-> targets]

\* Mutant: an insert that ignores the conflict on time_slot.
UpsertInsert(table, data) == table \cup {data}

\* Mutant: the write replaces the whole table.
UpsertTruncate(table, data) == {data}

\* upsert(data, on_conflict=["time_slot"])
Upsert(table, data) ==
    {s \in table : s.time_slot # data.time_slot} \cup {data}

\* select("targets").eq("time_slot", slot): the matching rows' targets.
Select(table, slot) == {s \in table : s.time_slot = slot}

\* The stores a process may find at start: any named slot absent or holding
\* a snapshot an earlier process saved.
StoredAtStart(slot) ==
    IF slot = SLOT_10AM THEN {<<>>, MorningData, DuplicateData}
    ELSE {<<>>, AfternoonData}

InitStores ==
    { { Snapshot(slot, SlotTime(slot), f[slot]) :
            slot \in {x \in NamedSlots : f[x] # <<>>} } :
      f \in {g \in [NamedSlots -> Datasets \cup {<<>>}] :
                 \A x \in NamedSlots : g[x] \in StoredAtStart(x)} }

\* Mutant: a comparison slot reads its own snapshot.
PreviousSlotSame(time_slot) ==
    IF time_slot = SLOT_2PM THEN SLOT_2PM
    ELSE IF time_slot = SLOT_430PM THEN SLOT_430PM
    ELSE NoSlot

\* get_previous_report_data: the slot whose snapshot is to be read.
PreviousSlot(time_slot) ==
    IF time_slot = SLOT_2PM THEN SLOT_10AM
    ELSE IF time_slot = SLOT_430PM THEN SLOT_2PM
    ELSE NoSlot

\* get_previous_report_data(current_time) when the select succeeds.
get_previous_report_data(table, current_time) ==
    LET previous_slot == PreviousSlot(get_time_slot(current_time))
        data == Select(table, previous_slot)
    IN  IF previous_slot # NoSlot /\ data # {}
        THEN List((CHOOSE s \in data : TRUE).targets)
        ELSE None

(***************************************************************************)
(* create_comparative_report                                               *)
(***************************************************************************)
MaxOf(S) == CHOOSE x \in S : \A y \in S : y <= x
MinOf(S) == CHOOSE x \in S : \A y \in S : x <= y

\* Mutant: the first item of a name wins.
PreviousLookupFirst(previous_data, target_name) ==
    LET hits == {j \in 1 .. Len(previous_data) :
                     previous_data[j].Target = target_name}
    IN  IF hits = {} THEN None ELSE previous_data[MinOf(hits)]

\* previous_lookup = {item["Target"]: item ...}: the last item of a name wins.
PreviousLookup(previous_data, target_name) ==
    LET hits == {j \in 1 .. Len(previous_data) :
                     previous_data[j].Target = target_name}
    IN  IF hits = {} THEN None ELSE previous_data[MaxOf(hits)]

ReportItem(current_item, previous_item) ==
    IF previous_item # None
    THEN [Target |-> current_item.Target,
          RPC |-> current_item.RPC,
          Incoming |-> current_item.Incoming,
          Converted |-> current_item.Converted,
          is_comparative |-> TRUE,
          RPC_pct |-> calculate_percentage_difference(
                          current_item.RPC, previous_item.RPC),
          Incoming_pct |-> calculate_percentage_difference(
                          current_item.Incoming, previous_item.Incoming),
          Converted_pct |-> calculate_percentage_difference(
                          current_item.Converted, previous_item.Converted),
          Previous_RPC |-> previous_item.RPC,
          Previous_Incoming |-> previous_item.Incoming,
          Previous_Converted |-> previous_item.Converted]
    ELSE [Target |-> current_item.Target,
          RPC |-> current_item.RPC,
          Incoming |-> current_item.Incoming,
          Converted |-> current_item.Converted,
          is_comparative |-> TRUE,
          RPC_pct |-> None,
          Incoming_pct |-> None,
          Converted_pct |-> None]

\* Mutant: every row is compared with the previous item of the first row.
ComparativeReportSharedBase(current_data, previous_data) ==
    IF ~Truthy(previous_data) THEN current_data
    ELSE [i \in 1 .. Len(current_data) |->
            ReportItem(current_data[i],
                       PreviousLookup(previous_data.items,
                                      current_data[1].Target))]

create_comparative_report(current_data, previous_data) ==
    IF ~Truthy(previous_data) THEN current_data
    ELSE [i \in 1 .. Len(current_data) |->
            ReportItem(current_data[i],
                       PreviousLookup(previous_data.items,
                                      current_data[i].Target))]

\* item.get(key): None when the row has no such key.
Get(item, key) == IF key \in DOMAIN item THEN item[key] ELSE None

(***************************************************************************)
(* get_csv_values(start_fresh=True, retry_count): one frame per call.      *)
(* retry_count is the depth of the frame below the outermost call.         *)
(*   pc       where the call stands                                        *)
(*   browser  "none" (the local is None), "open" or "closed"               *)
(*   out      how the call ends: None, a return value or a raise           *)
(***************************************************************************)
\* The failures the environment may still inject: of a step of the pipeline
\* (any number unless limited, then fail more) and of browser.close()
\* (close more).
CanFail == ~budget.limited \/ budget.fail > 0
Spent == IF budget.limited THEN [budget EXCEPT !.fail = @ - 1] ELSE budget
CanFailClose == budget.close > 0
SpentClose == [budget EXCEPT !.close = @ - 1]

Return(value) == [tag |-> "return", value |-> value]
Raise == [tag |-> "raise"]

NewFrame == [pc |-> "setup", browser |-> "none", out |-> None]

Top(r) == frames[r][Len(frames[r])]
retry_count(r) == Len(frames[r]) - 1
SetTop(r, f) == [frames EXCEPT ![r] = [@ EXCEPT ![Len(@)] = f]]
\* The frame goes on waiting at `at` for the recursive call it makes.
Recurse(r, f, at) ==
    [frames EXCEPT ![r] =
        Append([@ EXCEPT ![Len(@)] = [f EXCEPT !.pc = at]], NewFrame)]

InFrame(r, at) ==
    /\ pc[r] = "extract"
    /\ frames[r] # <<>>
    /\ Top(r).pc = at

\* playwright_instance, browser, context, page = await setup_browser(...)
SetupBrowser(r) ==
    /\ InFrame(r, "setup")
    /\ attempts' = [attempts EXCEPT ![r] = @ + 1]
    /\ \/ /\ frames' = SetTop(r, [Top(r) EXCEPT !.pc = "login",
                                                  !.browser = "open"])
          /\ UNCHANGED budget
       \/ /\ CanFail
          /\ budget' = Spent
          /\ frames' = SetTop(r, [Top(r) EXCEPT !.pc = "except"])
    /\ UNCHANGED <<pc, ret, m, sent, done, last_run_result, store,
                   mainThread, jobs, call>>

\* A step of the session that returns success or failure and never raises:
\* login_to_ringba, navigate_to_reporting, export_and_download_csv.
SessionStep(r, at, next) ==
    /\ InFrame(r, at)
    /\ \/ /\ frames' = SetTop(r, [Top(r) EXCEPT !.pc = next])
          /\ UNCHANGED budget
       \/ /\ CanFail
          /\ budget' = Spent
          /\ frames' = SetTop(r, [Top(r) EXCEPT !.pc = "retry"])
    /\ UNCHANGED <<pc, ret, m, attempts, sent, done, last_run_result, store,
                   mainThread, jobs, call>>

Login(r) == SessionStep(r, "login", "navigate")
Navigate(r) == SessionStep(r, "navigate", "export")
Export(r) == SessionStep(r, "export", "parse")

\* The CSV is read and parsed: rows are returned, or there is no usable RPC
\* column or value, or pandas raises; the last two take the same retry code.
ParseCsv(r) ==
    /\ InFrame(r, "parse")
    /\ \/ /\ \E d \in Datasets :
                frames' = SetTop(r, [Top(r) EXCEPT !.pc = "finally",
                                                   !.out = Return(d)])
          /\ UNCHANGED budget
       \/ /\ CanFail
          /\ budget' = Spent
          /\ frames' = SetTop(r, [Top(r) EXCEPT !.pc = "retry"])
    /\ UNCHANGED <<pc, ret, m, attempts, sent, done, last_run_result, store,
                   mainThread, jobs, call>>

\* The retry code of the body (and of the handler of csv_error):
\*   if retry_count < MAX_RETRIES: close the browser, call get_csv_values
\*   else: return []
\* browser.close() may raise, which the outer handler catches.
RetryBranch(r) ==
    /\ InFrame(r, "retry")
    /\ IF retry_count(r) < MAX_RETRIES
       THEN \/ /\ frames' = Recurse(r, [Top(r) EXCEPT !.browser =
                                   IF @ = "none" THEN "none" ELSE "closed"],
                                   "await_body")
               /\ UNCHANGED budget
            \/ /\ Top(r).browser = "open"
               /\ CanFailClose
               /\ budget' = SpentClose
               /\ frames' = SetTop(r, [Top(r) EXCEPT !.pc = "except"])
       ELSE /\ frames' = SetTop(r, [Top(r) EXCEPT !.pc = "finally",
                                                  !.out = Return(<<>>)])
            /\ UNCHANGED budget
    /\ UNCHANGED <<pc, ret, m, attempts, sent, done, last_run_result, store,
                   mainThread, jobs, call>>

\* except Exception as e: the same retry code; a raise of browser.close()
\* here leaves the call.
ExceptHandler(r) ==
    /\ InFrame(r, "except")
    /\ IF retry_count(r) < MAX_RETRIES
       THEN \/ /\ frames' = Recurse(r, [Top(r) EXCEPT !.browser =
                                   IF @ = "none" THEN "none" ELSE "closed"],
                                   "await_except")
               /\ UNCHANGED budget
            \/ /\ Top(r).browser = "open"
               /\ CanFailClose
               /\ budget' = SpentClose
               /\ frames' = SetTop(r, [Top(r) EXCEPT !.pc = "finally",
                                                     !.out = Raise])
       ELSE /\ frames' = SetTop(r, [Top(r) EXCEPT !.pc = "finally",
                                                  !.out = Return(<<>>)])
            /\ UNCHANGED budget
    /\ UNCHANGED <<pc, ret, m, attempts, sent, done, last_run_result, store,
                   mainThread, jobs, call>>

\* What the caller's frame does with the way its recursive call ended.
Resume(caller, out) ==
    IF caller.pc = "await_body" /\ out.tag = "raise"
    THEN [caller EXCEPT !.pc = "except"]
    ELSE [caller EXCEPT !.pc = "finally", !.out = out]

\* finally: the browser is closed under try/except; then the call ends and
\* its caller (a frame, or main) goes on.
Finally(r) ==
    /\ InFrame(r, "finally")
    /\ \/ UNCHANGED budget
       \/ /\ Top(r).browser = "open"
          /\ CanFailClose
          /\ budget' = SpentClose
    /\ IF Len(frames[r]) = 1
       THEN /\ frames' = [frames EXCEPT ![r] = <<>>]
            /\ ret' = [ret EXCEPT ![r] = Top(r).out]
       ELSE /\ LET n == Len(frames[r]) - 1
                   rest == SubSeq(frames[r], 1, n)
               IN  frames' = [frames EXCEPT ![r] =
                       [rest EXCEPT ![n] = Resume(rest[n], Top(r).out)]]
            /\ UNCHANGED ret
    /\ UNCHANGED <<pc, m, attempts, sent, done, last_run_result, store,
                   mainThread, jobs, call>>

(***************************************************************************)
(* main(): one run.                                                        *)
(***************************************************************************)
NoLocals ==
    [target_rpc_data |-> <<>>, now |-> None, previous_slot |-> NoSlot,
     previous_data |-> None, report_data |-> <<>>,
     is_comparative_report |-> FALSE, message |-> "none", lines |-> <<>>]

\* The dict main() assigns to last_run_result; run stands for the identity
\* of the dict, which each run builds anew.
FailureResult(r) ==
    [success |-> FALSE, run |-> r, timestamp |-> [tag |-> "datetime.now()"]]

SuccessResult(r, loc) ==
    [success |-> TRUE, run |-> r,
     target_rpc_data |-> loc.target_rpc_data,
     targets_displayed |-> loc.report_data,
     timestamp |-> loc.now,
     is_comparative |-> loc.is_comparative_report]

\* playwright = await async_playwright().start(), then the call of
\* get_csv_values(start_fresh=True); a raise goes to main's handler.
MainStart(r) ==
    /\ pc[r] = "start"
    /\ \/ /\ pc' = [pc EXCEPT ![r] = "extract"]
          /\ frames' = [frames EXCEPT ![r] = <<NewFrame>>]
          /\ UNCHANGED budget
       \/ /\ CanFail
          /\ budget' = Spent
          /\ pc' = [pc EXCEPT ![r] = "except"]
          /\ UNCHANGED frames
    /\ UNCHANGED <<ret, m, attempts, sent, done, last_run_result, store,
                   mainThread, jobs, call>>

\* Mutant: main() without the test "if not target_rpc_data".
EmptyCheckSkipped(r) ==
    /\ pc[r] = "extract"
    /\ frames[r] = <<>>
    /\ ret[r] # None
    /\ IF ret[r].tag = "raise"
       THEN /\ pc' = [pc EXCEPT ![r] = "except"]
            /\ UNCHANGED <<m, last_run_result>>
       ELSE /\ m' = [m EXCEPT ![r].target_rpc_data = ret[r].value]
            /\ pc' = [pc EXCEPT ![r] = "compare"]
            /\ UNCHANGED last_run_result
    /\ UNCHANGED <<frames, ret, attempts, sent, done, store, budget,
                   mainThread, jobs, call>>

\* target_rpc_data = await get_csv_values(start_fresh=True)
\* if not target_rpc_data: last_run_result = {failure}; (notify); return
MainExtracted(r) ==
    /\ pc[r] = "extract"
    /\ frames[r] = <<>>
    /\ ret[r] # None
    /\ IF ret[r].tag = "raise"
       THEN /\ pc' = [pc EXCEPT ![r] = "except"]
            /\ UNCHANGED <<m, last_run_result>>
       ELSE /\ m' = [m EXCEPT ![r].target_rpc_data = ret[r].value]
            /\ IF ret[r].value = <<>>
               THEN /\ last_run_result' = FailureResult(r)
                    /\ pc' = [pc EXCEPT ![r] = "notify_error"]
               ELSE /\ pc' = [pc EXCEPT ![r] = "compare"]
                    /\ UNCHANGED last_run_result
    /\ UNCHANGED <<frames, ret, attempts, sent, done, store, budget,
                   mainThread, jobs, call>>

\* main's test of the report time: the slot read for comparison, or NoSlot.
ComparisonBranch(now) ==
    IF now.hour = 14 /\ now.minute < 30 THEN SLOT_10AM
    ELSE IF now.hour = 16 /\ now.minute >= 30 THEN SLOT_2PM
    ELSE NoSlot

\* The template main() formats the report with.
MessageTemplate(is_comparative_report, now) ==
    IF is_comparative_report
    THEN IF now.hour = 14 THEN "Ringba Comparative Report (vs 10 AM)"
         ELSE "Ringba Comparative Report (vs 2 PM)"
    ELSE "Ringba Report"

\* The lines main() appends to the message, one per item of report_data in
\* order: the percentage changes, the current values with the marker of a
\* target without comparison, or the current values of a standard report.
MessageLines(report_data, is_comparative_report) ==
    [k \in 1 .. Len(report_data) |->
        [Target |-> report_data[k].Target,
         text |-> IF ~is_comparative_report THEN "values"
                  ELSE IF Get(report_data[k], "RPC_pct") # None
                       THEN "changes"
                       ELSE "values (new target, no comparison)"]]

\* The locals of main() once the report is built: now is read from the
\* clock; in a comparison branch the previous snapshot is read (readOk: the
\* select did not raise) and compared.
Compared(loc, now, table, readOk) ==
    LET branch == ComparisonBranch(now)
        previous_data == IF branch # NoSlot /\ readOk
                         THEN get_previous_report_data(table, now)
                         ELSE None
        report_data == IF Truthy(previous_data)
                       THEN create_comparative_report(loc.target_rpc_data,
                                                      previous_data)
                       ELSE loc.target_rpc_data
    IN  [loc EXCEPT
            !.now = now,
            !.previous_slot =
                IF branch # NoSlot THEN PreviousSlot(get_time_slot(now))
                ELSE NoSlot,
            !.previous_data = previous_data,
            !.report_data = report_data,
            !.is_comparative_report = Truthy(previous_data),
            !.message = MessageTemplate(Truthy(previous_data), now),
            !.lines = MessageLines(report_data, Truthy(previous_data))]

\* From the threshold to the assignment of last_run_result: the report is
\* built and formatted; a raise on the way goes to main's handler.
MainCompare(r) ==
    /\ pc[r] = "compare"
    /\ \/ \E now \in Clock, readOk \in BOOLEAN :
            /\ m' = [m EXCEPT ![r] = Compared(m[r], now, store, readOk)]
            /\ last_run_result' = SuccessResult(r, m'[r])
            /\ done' = [done EXCEPT ![r] = @ \cup {"compare"}]
            /\ pc' = [pc EXCEPT ![r] = "notify"]
            /\ UNCHANGED budget
       \/ /\ CanFail
          /\ budget' = Spent
          /\ pc' = [pc EXCEPT ![r] = "except"]
          /\ UNCHANGED <<m, last_run_result, done>>
    /\ UNCHANGED <<frames, ret, attempts, sent, store,
                   mainThread, jobs, call>>

\* Mutant: a report the webhook did not take ends the run before the save.
MainNotifyStopsOnFailure(r) ==
    /\ pc[r] = "notify"
    /\ \E ok \in BOOLEAN :
          /\ sent' = [sent EXCEPT ![r].data = @ + 1,
                                 ![r].delivered = @ + (IF ok THEN 1 ELSE 0)]
          /\ pc' = [pc EXCEPT ![r] = IF ok THEN "save" ELSE "finally"]
    /\ done' = [done EXCEPT ![r] = @ \cup {"report"}]
    /\ UNCHANGED <<frames, ret, m, attempts, last_run_result, store,
                   budget, mainThread, jobs, call>>

\* await send_slack_notification(message): the report is handed to the
\* sink, which delivers it (ok) or not; the return value is not read.
MainNotify(r) ==
    /\ pc[r] = "notify"
    /\ \E ok \in BOOLEAN :
          sent' = [sent EXCEPT ![r].data = @ + 1,
                               ![r].delivered = @ + (IF ok THEN 1 ELSE 0)]
    /\ done' = [done EXCEPT ![r] = @ \cup {"report"}]
    /\ pc' = [pc EXCEPT ![r] = "save"]
    /\ UNCHANGED <<frames, ret, m, attempts, last_run_result, store,
                   budget, mainThread, jobs, call>>

\* Mutant: save_report_data lets the exception of the upsert out.
MainSaveRaises(r) ==
    /\ pc[r] = "save"
    /\ \/ /\ store' = Upsert(store, Snapshot(get_time_slot(m[r].now),
                                             m[r].now, m[r].target_rpc_data))
          /\ done' = [done EXCEPT ![r] = @ \cup {"save", "persist"}]
          /\ pc' = [pc EXCEPT ![r] = "finally"]
       \/ /\ done' = [done EXCEPT ![r] = @ \cup {"save"}]
          /\ pc' = [pc EXCEPT ![r] = "except"]
          /\ UNCHANGED store
    /\ UNCHANGED <<frames, ret, m, attempts, sent, last_run_result,
                   budget, mainThread, jobs, call>>

\* Mutant: the rows of the report are saved.
MainSaveReport(r) ==
    /\ pc[r] = "save"
    /\ \/ /\ store' = Upsert(store, Snapshot(get_time_slot(m[r].now),
                                             m[r].now, m[r].report_data))
          /\ done' = [done EXCEPT ![r] = @ \cup {"save", "persist"}]
       \/ /\ done' = [done EXCEPT ![r] = @ \cup {"save"}]
          /\ UNCHANGED store
    /\ pc' = [pc EXCEPT ![r] = "finally"]
    /\ UNCHANGED <<frames, ret, m, attempts, sent, last_run_result,
                   budget, mainThread, jobs, call>>

\* save_report_data(target_rpc_data, now): the upsert, or an exception that
\* save_report_data swallows; the return value is not read.
MainSave(r) ==
    /\ pc[r] = "save"
    /\ \/ /\ store' = Upsert(store, Snapshot(get_time_slot(m[r].now),
                                             m[r].now, m[r].target_rpc_data))
          /\ done' = [done EXCEPT ![r] = @ \cup {"save", "persist"}]
       \/ /\ done' = [done EXCEPT ![r] = @ \cup {"save"}]
          /\ UNCHANGED store
    /\ pc' = [pc EXCEPT ![r] = "finally"]
    /\ UNCHANGED <<frames, ret, m, attempts, sent, last_run_result,
                   budget, mainThread, jobs, call>>

\* Mutant: main() without its handler; the exception leaves main().
MainExceptReraise(r) ==
    /\ pc[r] = "except"
    /\ pc' = [pc EXCEPT ![r] = "raised"]
    /\ UNCHANGED <<frames, ret, m, attempts, sent, done, last_run_result,
                   store, budget, mainThread, jobs, call>>

\* except Exception as e: last_run_result = {failure}; (notify)
MainExcept(r) ==
    /\ pc[r] = "except"
    /\ last_run_result' = FailureResult(r)
    /\ pc' = [pc EXCEPT ![r] = "notify_error"]
    /\ UNCHANGED <<frames, ret, m, attempts, sent, done, store, budget,
                   mainThread, jobs, call>>

\* Mutant: the failure is reported with the data template.
NotifyErrorAsReport(r) ==
    /\ pc[r] = "notify_error"
    /\ sent' = [sent EXCEPT ![r].data = @ + 1]
    /\ pc' = [pc EXCEPT ![r] = "finally"]
    /\ UNCHANGED <<frames, ret, m, attempts, done, last_run_result, store,
                   budget, mainThread, jobs, call>>

\* await send_slack_notification(<error template>)
MainNotifyError(r) ==
    /\ pc[r] = "notify_error"
    /\ sent' = [sent EXCEPT ![r].error = @ + 1]
    /\ pc' = [pc EXCEPT ![r] = "finally"]
    /\ UNCHANGED <<frames, ret, m, attempts, done, last_run_result, store,
                   budget, mainThread, jobs, call>>

\* finally: playwright.stop() under try/except; main() returns.
MainFinally(r) ==
    /\ pc[r] = "finally"
    /\ pc' = [pc EXCEPT ![r] = "returned"]
    /\ UNCHANGED <<frames, ret, m, attempts, sent, done, last_run_result,
                   store, budget, mainThread, jobs, call>>

(***************************************************************************)
(* The process: the __main__ block and the HTTP trigger.                   *)
(***************************************************************************)
\* After the initial run: setup_schedule() registers the three daily jobs
\* and the __main__ block ends.
setup_schedule ==
    /\ mainThread = "initial_run"
    /\ pc[0] = "returned"
    /\ jobs' = {T(10, 0), T(14, 0), T(16, 30)}
    /\ mainThread' = "ended"
    /\ UNCHANGED <<pc, frames, ret, m, attempts, sent, done, last_run_result,
                   store, budget, call>>

\* The process lives while the __main__ block or a run thread does; the
\* server thread is a daemon.
ProcessAlive ==
    \/ mainThread # "ended"
    \/ \E r \in HttpRuns : pc[r] \notin {"idle", "returned"}

\* do_GET, path "/run": threading.Thread(target=run_check).start()
do_GET_run(r) ==
    /\ r \in HttpRuns
    /\ pc[r] = "idle"
    /\ \A q \in HttpRuns : q < r => pc[q] # "idle"
    /\ ProcessAlive
    /\ pc' = [pc EXCEPT ![r] = "start"]
    /\ UNCHANGED <<frames, ret, m, attempts, sent, done, last_run_result,
                   store, budget, mainThread, jobs, call>>

NoCall == [fn |-> "none"]

\* dict.get(key, default)
GetOr(dict, key, default) == IF key \in DOMAIN dict THEN dict[key] ELSE default

Never == [tag |-> "str", s |-> "Never"]
NoBody == [tag |-> "no body"]

\* do_GET, path "/health": the body written after the 200 status line and
\* the headers.  last_run_result.get raises AttributeError on None, which
\* ends the handler before anything is written.
HealthStatus(result) ==
    IF result = None
    THEN NoBody
    ELSE [status |-> "healthy", lastRun |-> GetOr(result, "timestamp", Never),
          success |-> GetOr(result, "success", FALSE),
          isComparative |-> GetOr(result, "is_comparative", FALSE)]

\* One GET /health, answered by the server thread while the process lives.
do_GET_health ==
    /\ call = NoCall
    /\ ProcessAlive
    /\ call' = [fn |-> "GET /health", code |-> 200,
                unset |-> (last_run_result = None),
                body |-> HealthStatus(last_run_result)]
    /\ UNCHANGED progVars

\* sorted_targets[:50]
STATUS_ROWS == 50

\* a < b on floats
FloatLess(a, b) == a.num * b.den < b.num * a.den

\* sorted(items, key=...): Python's sort is stable; key[i] is the key of
\* items[i].
Sorted(items, key) ==
    LET n == Len(items)
        Rank(i) == 1 + Cardinality({j \in 1 .. n :
                          \/ FloatLess(key[j], key[i])
                          \/ ~FloatLess(key[i], key[j]) /\ j < i})
    IN  [k \in 1 .. n |-> items[CHOOSE i \in 1 .. n : Rank(i) = k]]

\* The rows of the comparative table of the status page: the targets with a
\* percentage change, by ascending change, the first fifty.
ComparativeRows(targets_displayed) ==
    LET HasPct(t) == "RPC_pct" \in DOMAIN t /\ t.RPC_pct # None
        kept == SelectSeq(targets_displayed, HasPct)
        sorted_targets ==
            Sorted(kept, [k \in 1 .. Len(kept) |-> kept[k].RPC_pct])
    IN  [k \in 1 .. MinOf({Len(sorted_targets), STATUS_ROWS}) |->
            LET rpc_pct == sorted_targets[k].RPC_pct
            IN  [Target |-> sorted_targets[k].Target,
                 text |-> IF FloatLess(Float(5, 1), rpc_pct)
                          THEN "Improved"
                          ELSE IF FloatLess(rpc_pct, Float(-5, 1))
                               THEN "Decreased" ELSE "Stable"]]

\* The rows of the standard table: target_rpc_data by ascending RPC, the
\* first fifty.
StandardRows(target_rpc_data) ==
    LET sorted_targets ==
            Sorted(target_rpc_data,
                   [k \in 1 .. Len(target_rpc_data) |->
                       Float(target_rpc_data[k].RPC, 1)])
    IN  [k \in 1 .. MinOf({Len(sorted_targets), STATUS_ROWS}) |->
            [Target |-> sorted_targets[k].Target, text |-> "values"]]

\* The page of do_GET, path "/", before anything was read.
BlankPage ==
    [status_text |-> "unset", timestamp |-> None, report_type |-> "unset",
     target_rpc_data |-> <<>>, targets_displayed |-> <<>>,
     body |-> "unset", rows |-> <<>>]

\* do_GET, path "/": the statement at line c.at reads the global
\* last_run_result (result) and the handler moves to its next read; c.reads
\* collects the runs whose dict was read.
StatusRead(c, result) ==
    LET seen == [c EXCEPT !.reads = @ \cup {result.run}]
        page == c.page
    IN  CASE c.at = "108" ->
               [seen EXCEPT !.at = "117",
                   !.page = [page EXCEPT !.status_text =
                       IF GetOr(result, "success", FALSE)
                       THEN "Success" ELSE "Error"]]
          [] c.at = "117" ->
               [seen EXCEPT !.at = "121",
                   !.page = [page EXCEPT !.timestamp =
                       GetOr(result, "timestamp",
                             [tag |-> "str", s |-> "Unknown"])]]
          [] c.at = "121" ->
               [seen EXCEPT !.at = "130",
                   !.page = [page EXCEPT !.report_type =
                       IF GetOr(result, "is_comparative", FALSE)
                       THEN "Comparative Report" ELSE "Standard Report"]]
          [] c.at = "130" ->
               [seen EXCEPT !.at =
                   IF GetOr(result, "success", FALSE) THEN "131" ELSE "235"]
          [] c.at = "131" ->
               [seen EXCEPT !.at = "132",
                   !.page = [page EXCEPT !.target_rpc_data =
                       GetOr(result, "target_rpc_data", <<>>)]]
          [] c.at = "132" ->
               [seen EXCEPT !.at = "133",
                   !.page = [page EXCEPT !.targets_displayed =
                       GetOr(result, "targets_displayed", <<>>)]]
          [] c.at = "133" ->
               [seen EXCEPT !.at = "134"]
          [] c.at = "134" ->
               [seen EXCEPT !.at = "written",
                   !.page = [page EXCEPT
                       !.body = IF GetOr(result, "is_comparative", FALSE)
                                THEN "Ringba Comparative Report"
                                ELSE "Ringba Report",
                       !.rows = IF GetOr(result, "is_comparative", FALSE)
                                THEN ComparativeRows(page.targets_displayed)
                                ELSE StandardRows(page.target_rpc_data)]]
          [] c.at = "235" ->
               [seen EXCEPT !.at = "written",
                   !.page = [page EXCEPT !.body = "Error Details"]]

\* One GET /, answered by the server thread while the process lives: the
\* test of line 107, then one read of last_run_result per step.
do_GET_status ==
    /\ ProcessAlive
    /\ \/ /\ call = NoCall
          /\ call' = IF last_run_result = None
                     THEN [fn |-> "GET /", at |-> "written", reads |-> {},
                           page |-> [BlankPage EXCEPT
                                        !.body = "No Data Available"]]
                     ELSE [fn |-> "GET /", at |-> "108",
                           reads |-> {last_run_result.run},
                           page |-> BlankPage]
       \/ /\ call # NoCall
          /\ call.fn = "GET /"
          /\ call.at # "written"
          /\ call' = StatusRead(call, last_run_result)
    /\ UNCHANGED progVars

\* do_GET, path "/health", one read of last_run_result per step: the three
\* values of the dict literal at lines 285 to 287.
HealthRead(c, result) ==
    LET seen == [c EXCEPT !.reads = @ \cup {result.run}]
    IN  CASE c.at = "285" ->
               [seen EXCEPT !.at = "286",
                   !.body = [@ EXCEPT !.lastRun =
                       GetOr(result, "timestamp", Never)]]
          [] c.at = "286" ->
               [seen EXCEPT !.at = "287",
                   !.body = [@ EXCEPT !.success =
                       GetOr(result, "success", FALSE)]]
          [] c.at = "287" ->
               [seen EXCEPT !.at = "written",
                   !.body = [@ EXCEPT !.isComparative =
                       GetOr(result, "is_comparative", FALSE)]]

do_GET_health_reads ==
    /\ ProcessAlive
    /\ \/ /\ call = NoCall
          /\ call' = [fn |-> "GET /health", at |-> "285", reads |-> {},
                      body |-> [status |-> "healthy", lastRun |-> None,
                                success |-> None, isComparative |-> None]]
       \/ /\ call # NoCall
          /\ call.fn = "GET /health"
          /\ call.at # "written"
          /\ last_run_result # None
          /\ call' = HealthRead(call, last_run_result)
    /\ UNCHANGED progVars

RunStep(r) ==
    \/ MainStart(r)
    \/ SetupBrowser(r)
    \/ Login(r)
    \/ Navigate(r)
    \/ Export(r)
    \/ ParseCsv(r)
    \/ RetryBranch(r)
    \/ ExceptHandler(r)
    \/ Finally(r)
    \/ MainExtracted(r)
    \/ MainCompare(r)
    \/ MainNotify(r)
    \/ MainSave(r)
    \/ MainExcept(r)
    \/ MainNotifyError(r)
    \/ MainFinally(r)

ProgInit ==
    /\ pc = [r \in Runs |-> IF r = 0 THEN "start" ELSE "idle"]
    /\ frames = [r \in Runs |-> <<>>]
    /\ ret = [r \in Runs |-> None]
    /\ m = [r \in Runs |-> NoLocals]
    /\ attempts = [r \in Runs |-> 0]
    /\ sent = [r \in Runs |-> [error |-> 0, data |-> 0, delivered |-> 0]]
    /\ done = [r \in Runs |-> {}]
    /\ last_run_result = None
    /\ mainThread = "initial_run"
    /\ jobs = {}

\* One run of main() on any store, with no request for /run.
Init ==
    /\ ProgInit
    /\ store \in InitStores
    /\ budget = [limited |-> FALSE, fail |-> 0, close |-> MaxCloseFailures]
    /\ call = NoCall
Next == RunStep(0) \/ setup_schedule
Spec == Init /\ [][Next]_vars

\* The server process: the initial run and the run threads of GET /run,
\* with a bounded number of injected failures.
ServerInit ==
    /\ ProgInit
    /\ store \in {{}, {Snapshot(SLOT_10AM, SlotTime(SLOT_10AM), MorningData)}}
    /\ budget = [limited |-> TRUE, fail |-> MaxServerFailures,
                 close |-> MaxCloseFailures]
    /\ call = NoCall
ServerNext ==
    \/ \E r \in Runs : RunStep(r)
    \/ setup_schedule
    \/ \E r \in HttpRuns : do_GET_run(r)
ServerSpec == ServerInit /\ [][ServerNext]_vars

\* The run is scheduled until it returns: asyncio.run() drives main() to its
\* end and every wait in it is bounded.
FairSpec == Spec /\ WF_vars(RunStep(0))

\* The whole __main__ block is scheduled until it ends.
FairProcessSpec == Spec /\ WF_vars(Next)

\* The process with a client of GET /health.
HealthNext == Next \/ do_GET_health
HealthSpec == Init /\ [][HealthNext]_vars

\* The server process with one client that asks for /run once the initial
\* run has returned, and for / or /health at any time; the reads of
\* last_run_result interleave with the runs.
StatusInit ==
    /\ ProgInit
    /\ store = {Snapshot(SLOT_10AM, SlotTime(SLOT_10AM), MorningData)}
    /\ budget = [limited |-> TRUE, fail |-> MaxServerFailures,
                 close |-> MaxCloseFailures]
    /\ call = NoCall
\* The day of the client: the export holds the afternoon figures, the
\* clock reads 14:05 and the webhook accepts what it is sent.
StatusDay ==
    \A r \in Runs :
        /\ m[r].target_rpc_data \in {<<>>, AfternoonData}
        /\ m[r].now \in {None, T(14, 5)}
        /\ sent[r].delivered = sent[r].data
StatusNext ==
    \/ \E r \in Runs :
          \/ MainStart(r)
          \/ SetupBrowser(r)
          \/ Login(r)
          \/ Navigate(r)
          \/ Export(r)
          \/ ParseCsv(r)
          \/ RetryBranch(r)
          \/ ExceptHandler(r)
          \/ Finally(r)
          \/ MainExtracted(r) /\ StatusDay'
          \/ MainCompare(r) /\ StatusDay'
          \/ MainNotify(r) /\ StatusDay'
          \/ MainSave(r)
          \/ MainExcept(r)
          \/ MainNotifyError(r)
          \/ MainFinally(r)
    \/ setup_schedule
    \/ \E r \in HttpRuns : pc[0] = "returned" /\ do_GET_run(r)
    \/ do_GET_status
    \/ do_GET_health_reads
StatusSpec == StatusInit /\ [][StatusNext]_vars

(***************************************************************************)
(* Pure functions under test: the arguments are drawn at the start and     *)
(* the call applies the function.                                          *)
(***************************************************************************)
Pending == [tag |-> "pending"]

IdleProgram ==
    /\ ProgInit
    /\ store = {}
    /\ budget = [limited |-> TRUE, fail |-> 0, close |-> 0]

PctInputs == (-MaxVal .. MaxVal) \cup {50, 55, 90, 100, 110, 1000, 1200}

PctInit ==
    /\ IdleProgram
    /\ \E c \in PctInputs, p \in PctInputs :
          call = [fn |-> "calculate_percentage_difference",
                  current_value |-> c, previous_value |-> p,
                  result |-> Pending]

CallPct ==
    /\ call.fn = "calculate_percentage_difference"
    /\ call.result = Pending
    /\ call' = [call EXCEPT !.result =
                   calculate_percentage_difference(call.current_value,
                                                   call.previous_value)]
    /\ UNCHANGED progVars

PctSpec == PctInit /\ [][CallPct]_vars

SlotInit ==
    /\ IdleProgram
    /\ \E h \in 0 .. 23, mi \in 0 .. 59 :
          call = [fn |-> "get_time_slot", run_time |-> T(h, mi),
                  result |-> <<>>]

CallSlot ==
    /\ call.fn = "get_time_slot"
    /\ call.result = <<>>
    /\ call' = [call EXCEPT !.result = get_time_slot(call.run_time)]
    /\ UNCHANGED progVars

SlotSpec == SlotInit /\ [][CallSlot]_vars

(***************************************************************************)
(* main() over successive days against the table ringba_reports: each step *)
(* is one run, triggered at one time, reading the clock after its          *)
(* extraction and ending with save_report_data.  The date of a datetime is *)
(* the field day.                                                          *)
(***************************************************************************)
MaxDays == 2

DayClock ==
    {[day |-> d, hour |-> t.hour, minute |-> t.minute] :
        d \in 1 .. MaxDays, t \in Clock}

\* a < b on datetimes
Earlier(a, b) ==
    \/ a.day < b.day
    \/ a.day = b.day /\ a.hour < b.hour
    \/ a.day = b.day /\ a.hour = b.hour /\ a.minute < b.minute

DayInit ==
    /\ IdleProgram
    /\ call = [fn |-> "main", table |-> {}, loc |-> NoLocals,
               triggered |-> [day |-> 1, hour |-> 0, minute |-> 0],
               now |-> [day |-> 1, hour |-> 0, minute |-> 0]]

\* One run triggered after the last one: get_csv_values returns the
\* figures of that part of the day (d), the clock is read (now, not before
\* triggered), the report is built against the table and the extraction is
\* saved, or (saved false) the upsert raises, which save_report_data
\* swallows.
DayRun ==
    /\ call.fn = "main"
    /\ \E triggered \in DayClock, now \in DayClock, saved \in BOOLEAN :
        LET d == IF triggered.hour < 12 THEN MorningData ELSE AfternoonData
        IN
          /\ Earlier(call.now, triggered)
          /\ triggered.day = now.day
          /\ ~Earlier(now, triggered)
          /\ call' = [fn |-> "main",
                      triggered |-> triggered,
                      now |-> now,
                      loc |-> Compared([NoLocals EXCEPT
                                           !.target_rpc_data = d],
                                       now, call.table, TRUE),
                      table |-> IF saved
                                THEN Upsert(call.table,
                                            Snapshot(get_time_slot(now),
                                                     now, d))
                                ELSE call.table]
    /\ UNCHANGED progVars
DaySpec == DayInit /\ [][DayRun]_vars

(***************************************************************************)
(* setup_browser under get_csv_values: the awaits of one attempt, the loop *)
(* over the attempts, and the retry of get_csv_values when setup_browser   *)
(* raises (its local browser is still None, so nothing is closed).         *)
(*   retry_count  of the get_csv_values call                               *)
(*   attempt      of setup_browser's loop                                  *)
(*   at           the await the attempt stands at                          *)
(*   open         the browsers launched and not closed                     *)
(*   started      the Playwright drivers started and not stopped           *)
(***************************************************************************)
\* def setup_browser(headless=True, retry_count=3)
setup_retry_count == 3

SetupAwaits ==
    <<"async_playwright().start", "chromium.launch", "browser.new_context",
      "context.add_init_script", "context.new_page">>

SetupInit ==
    /\ IdleProgram
    /\ call = [fn |-> "setup_browser", retry_count |-> 0, attempt |-> 0,
               at |-> 1, open |-> 0, started |-> 0, out |-> "none"]

setup_browser ==
    /\ call.fn = "setup_browser"
    /\ call.out = "none"
    /\ \/ call' = [call EXCEPT
                      !.started =
                          IF SetupAwaits[call.at] = "async_playwright().start"
                          THEN @ + 1 ELSE @,
                      !.open = IF SetupAwaits[call.at] = "chromium.launch"
                               THEN @ + 1 ELSE @,
                      !.at = IF @ < Len(SetupAwaits) THEN @ + 1 ELSE @,
                      !.out = IF call.at = Len(SetupAwaits)
                              THEN "returned" ELSE @]
       \/ call' = IF call.attempt < setup_retry_count - 1
                  THEN [call EXCEPT !.attempt = @ + 1, !.at = 1]
                  ELSE IF call.retry_count < MAX_RETRIES
                       THEN [call EXCEPT !.retry_count = @ + 1,
                                         !.attempt = 0, !.at = 1]
                       ELSE [call EXCEPT !.out = "return []"]
    /\ UNCHANGED progVars
SetupSpec == SetupInit /\ [][setup_browser]_vars

(***************************************************************************)
(* export_and_download_csv under the retries of get_csv_values.            *)
(*   page         what the page holds: an element for one of the export    *)
(*                selectors, a button with an export text, an element the  *)
(*                JavaScript search finds                                  *)
(*   shots        whether page.screenshot returns (TRUE) or raises, by     *)
(*                file name                                                *)
(*   downloads    the .csv files of the download directory, each named by  *)
(*                the attempt that created it (retry_count + 1; 0 is a run *)
(*                before this one), later attempts having later ctimes     *)
(***************************************************************************)
\* Mutant: every search runs, whatever the one before it found.
FindExportButtonAll(page, shots) ==
    [export_button |-> IF page.selector THEN "selector"
                       ELSE IF page.button THEN "button"
                       ELSE IF page.javascript THEN "xpath" ELSE "none",
     searched |-> <<"selectors", "buttons", "javascript">>]

\* The search for the export button: the selectors, then the texts of all
\* buttons (after the screenshot export_search.png, in the same try), then
\* the JavaScript search.
FindExportButton(page, shots) ==
    IF page.selector
    THEN [export_button |-> "selector", searched |-> <<"selectors">>]
    ELSE LET generic == shots.export_search
             byText == generic /\ page.button
             scans == IF generic THEN <<"selectors", "buttons">>
                      ELSE <<"selectors">>
         IN  IF byText
             THEN [export_button |-> "button", searched |-> scans]
             ELSE [export_button |-> IF page.javascript
                                     THEN "xpath" ELSE "none",
                   searched |-> Append(scans, "javascript")]

DownloadInit ==
    /\ IdleProgram
    /\ \E page \in [selector : BOOLEAN, button : BOOLEAN,
                    javascript : BOOLEAN],
          shots \in [before_export : BOOLEAN, export_search : BOOLEAN],
          downloads \in {{}, {0}} :
          call = [fn |-> "export_and_download_csv", page |-> page,
                  shots |-> shots, downloads |-> downloads,
                  retry_count |-> 0, at |-> "search",
                  found |-> [export_button |-> "none", searched |-> <<>>],
                  csv_path |-> None, by |-> "none"]

\* get_csv_values after a failed export or a CSV it cannot use: the retry,
\* or return [].
RetryExport(c) ==
    IF c.retry_count < MAX_RETRIES
    THEN [c EXCEPT !.retry_count = @ + 1, !.at = "search",
                   !.csv_path = None, !.by = "none"]
    ELSE [c EXCEPT !.at = "return []"]

\* The directory after a download of this attempt: a new name, or the name
\* of a file d already there, which it replaces.
Downloaded(c, d) == (c.downloads \ {d}) \cup {c.retry_count + 1}

ExportSearch ==
    /\ call.fn = "export_and_download_csv"
    /\ call.at = "search"
    /\ LET found == FindExportButton(call.page, call.shots)
       IN  call' = IF found.export_button = "none"
                   THEN RetryExport([call EXCEPT !.found = found])
                   ELSE [call EXCEPT !.found = found,
                                     !.at = "expect_download"]
    /\ UNCHANGED progVars

\* async with page.expect_download(...): the click, the download event and
\* save_as; or an exception, which leads to the second approach.
ExpectDownload ==
    /\ call.fn = "export_and_download_csv"
    /\ call.at = "expect_download"
    /\ \/ \E d \in call.downloads \cup {call.retry_count + 1} :
             call' = [call EXCEPT !.downloads = Downloaded(call, d),
                                  !.csv_path = call.retry_count + 1,
                                  !.by = "download event",
                                  !.at = "process"]
       \/ call' = [call EXCEPT !.at = "alternative"]
    /\ UNCHANGED progVars

\* The second approach: the click, the waits, then the latest .csv of the
\* directory by ctime; the click may or may not have produced a file.
AlternativeDownload ==
    /\ call.fn = "export_and_download_csv"
    /\ call.at = "alternative"
    /\ \E downloaded_files \in
              {call.downloads} \cup
              {Downloaded(call, d) :
                   d \in call.downloads \cup {call.retry_count + 1}} :
          call' = IF downloaded_files # {}
                  THEN [call EXCEPT !.downloads = downloaded_files,
                                    !.csv_path = MaxOf(downloaded_files),
                                    !.by = "glob",
                                    !.at = "process"]
                  ELSE RetryExport(call)
    /\ UNCHANGED progVars

\* get_csv_values with the path: the rows are read and the file is removed
\* (os.remove may fail), or no RPC column is found or pandas raises and the
\* call retries, leaving the file.
ProcessCsv ==
    /\ call.fn = "export_and_download_csv"
    /\ call.at = "process"
    /\ \/ \E removed \in BOOLEAN :
             call' = [call EXCEPT
                         !.downloads = IF removed THEN @ \ {call.csv_path}
                                       ELSE @,
                         !.at = "return target_rpc_data"]
       \/ call' = RetryExport(call)
    /\ UNCHANGED progVars

DownloadSpec ==
    DownloadInit /\ [][\/ ExportSearch
                       \/ ExpectDownload
                       \/ AlternativeDownload
                       \/ ProcessCsv]_vars

(***************************************************************************)
(* login_to_ringba, in its three versions, and navigate_to_reporting.      *)
(*   page   what the page does during the login:                           *)
(*     email_field  a selector finds the email field                       *)
(*     submitted    the credentials are filled in and the login button is  *)
(*                  clicked without an exception                           *)
(*     dashboard    the Dashboard marker shows within the 60 s wait        *)
(*     on_domain    "ringba.com" is in the URL after the wait              *)
(*     on_login     "login" is in the URL after the wait                   *)
(*   shots  whether a screenshot returns (TRUE) or raises, by its place    *)
(***************************************************************************)
\* "ringba.com" in current_url and "login" not in current_url
LoggedInUrl(page) == page.on_domain /\ ~page.on_login

\* ringba_bot_production.py: True or False.
login_to_ringba(page) ==
    IF ~page.email_field THEN FALSE
    ELSE IF ~page.submitted THEN FALSE
    ELSE IF page.dashboard THEN TRUE
    ELSE LoggedInUrl(page)

\* playwright_bot.py: True or False.  Without an email field the
\* credentials are typed by keyboard navigation.  A screenshot that raises
\* inside the try of the wait goes to its handler, one that raises inside
\* that handler or before the wait goes to the outer handler.
playwright_bot_login_to_ringba(page, shots) ==
    IF ~page.email_field /\ ~(shots.no_form /\ shots.before_submit)
    THEN FALSE
    ELSE IF ~page.submitted THEN FALSE
    ELSE IF page.dashboard /\ shots.dashboard THEN TRUE
    ELSE IF LoggedInUrl(page) THEN shots.different_page
    ELSE FALSE

\* ringba_bot.py: the function returns (TRUE) or raises (FALSE).
ringba_bot_login_to_ringba(page, shots) ==
    IF ~(page.email_field /\ page.submitted /\ shots.before_submit)
    THEN FALSE
    ELSE IF page.dashboard THEN TRUE
    ELSE IF ~shots.wait_error THEN FALSE
    ELSE LoggedInUrl(page)

\* max_attempts = 3
max_attempts == 3

SessionInit ==
    /\ IdleProgram
    /\ \E version \in {"ringba_bot_production.py", "playwright_bot.py",
                       "ringba_bot.py"},
          page \in [email_field : BOOLEAN, submitted : BOOLEAN,
                    dashboard : BOOLEAN, on_domain : BOOLEAN,
                    on_login : BOOLEAN],
          shots \in [no_form : BOOLEAN, before_submit : BOOLEAN,
                     dashboard : BOOLEAN, different_page : BOOLEAN,
                     wait_error : BOOLEAN] :
          call = [fn |-> "login_to_ringba", version |-> version,
                  page |-> page, shots |-> shots, login_success |-> Pending,
                  at |-> "login", attempt |-> 0, probe_failed |-> FALSE,
                  navigation_success |-> Pending]

\* login_success = await login_to_ringba(page); the production version goes
\* on to navigate_to_reporting.
CallLogin ==
    /\ call.fn = "login_to_ringba"
    /\ call.at = "login"
    /\ LET login_success ==
               IF call.version = "ringba_bot_production.py"
               THEN login_to_ringba(call.page)
               ELSE IF call.version = "playwright_bot.py"
                    THEN playwright_bot_login_to_ringba(call.page,
                                                        call.shots)
                    ELSE ringba_bot_login_to_ringba(call.page, call.shots)
       IN  call' = [call EXCEPT
                       !.login_success = login_success,
                       !.at = IF login_success /\ call.version
                                     = "ringba_bot_production.py"
                              THEN "evaluate" ELSE "returned"]
    /\ UNCHANGED progVars

\* What navigate_to_reporting does after a failed goto or a failed probe of
\* the loaded page: the wait and the next attempt, or return False.
NextAttempt(c) ==
    IF c.attempt < max_attempts - 1
    THEN [c EXCEPT !.attempt = @ + 1, !.at = "goto"]
    ELSE [c EXCEPT !.at = "returned", !.navigation_success = FALSE]

\* navigate_to_reporting, one await per step: the probe page.evaluate("1"),
\* then per attempt page.goto and the probe of the loaded page.
navigate_to_reporting ==
    /\ call.fn = "login_to_ringba"
    /\ \/ /\ call.at = "evaluate"
          /\ \/ call' = [call EXCEPT !.at = "goto"]
             \/ call' = [call EXCEPT !.probe_failed = TRUE,
                                     !.at = "returned",
                                     !.navigation_success = FALSE]
       \/ /\ call.at = "goto"
          /\ \/ call' = [call EXCEPT !.at = "evaluate loaded"]
             \/ call' = NextAttempt(call)
       \/ /\ call.at = "evaluate loaded"
          /\ \/ call' = [call EXCEPT !.at = "returned",
                                     !.navigation_success = TRUE]
             \/ call' = NextAttempt([call EXCEPT !.probe_failed = TRUE])
    /\ UNCHANGED progVars

SessionSpec == SessionInit /\ [][CallLogin \/ navigate_to_reporting]_vars

(***************************************************************************)
(* Properties                                                              *)
(***************************************************************************)
Active(r) == pc[r] \notin {"idle", "returned"}
F(n, d) == [tag |-> "float", num |-> n, den |-> d]

\* C1: within one run the browser pipeline is attempted at most
\* MAX_RETRIES + 1 = 5 times, whatever fails (browser.close() included).
C1_AtMostFiveAttempts == \A r \in Runs : attempts[r] <= MAX_RETRIES + 1

\* C2: every run terminates: main() returns (it never ends by raising), and
\* when it has returned last_run_result is the result this run assigned,
\* success exactly when the run delivered its report.
C2_RunReturns ==
    /\ [](pc[0] = "returned" =>
            /\ last_run_result # None
            /\ last_run_result.run = 0
            /\ last_run_result.success <=> ("report" \in done[0]))
    /\ <>(pc[0] = "returned")

C2_Witness ==
    /\ pc[0] = "returned"
    /\ ret[0] = Raise
    /\ last_run_result = FailureResult(0)

\* C3: a run in which no attempt produced rows hands the sink exactly one
\* error notification and no data report, and records success = false.
C3_FailedRunNotifiesOnce ==
    \A r \in Runs :
        m[r].target_rpc_data = <<>> =>
            /\ sent[r].data = 0
            /\ sent[r].error <= 1
            /\ pc[r] = "returned" =>
                  /\ sent[r].error = 1
                  /\ last_run_result # None
                  /\ last_run_result.run = r
                  /\ ~last_run_result.success

C3_Witness ==
    /\ pc[0] = "returned"
    /\ attempts[0] = MAX_RETRIES + 1
    /\ ret[0] = Return(<<>>)
    /\ sent[0] = [error |-> 1, data |-> 0, delivered |-> 0]

\* C4: the data report and the upsert happen only in a run whose extraction
\* returned at least one row; a step changes the store only as the upsert of
\* such a run, which has recorded success; and no snapshot of the store has
\* an empty targets sequence.
C4_OnlyNonEmptyIsSaved ==
    /\ [](/\ \A s \in store : s.targets # <<>>
          /\ \A r \in Runs :
                (sent[r].data > 0 \/ "persist" \in done[r]) =>
                    /\ m[r].target_rpc_data # <<>>
                    /\ sent[r].error = 0)
    /\ [][store' # store =>
            \E r \in Runs :
                /\ pc[r] = "save"
                /\ m[r].target_rpc_data # <<>>
                /\ last_run_result = SuccessResult(r, m[r])
                /\ store' \ store =
                      {Snapshot(get_time_slot(m[r].now), m[r].now,
                                m[r].target_rpc_data)}]_vars

C4_Witness ==
    /\ pc[0] = "returned"
    /\ "persist" \in done[0]
    /\ \E s \in store : s.timestamp = m[0].now /\ s.targets = DuplicateData

\* C5: runs never overlap: at most one run is in progress at any moment.
C5_RunsNeverOverlap == Cardinality({r \in Runs : Active(r)}) <= 1

\* C6: in a successful run the report is handed to the sink only after the
\* comparison and after the upsert of the current snapshot.
C6_PersistBeforeReport ==
    \A r \in Runs :
        sent[r].data > 0 => {"compare", "persist"} \subseteq done[r]

\* C7: the snapshot read for comparison is fixed by the time slot of the
\* run: 10AM for a 2PM run, 2PM for a 4:30PM run, none otherwise; a run that
\* reads none reports the extraction as it is, with no delta on any row.
C7_PreviousBySlot ==
    \A r \in Runs :
        "compare" \in done[r] =>
            LET loc == m[r]
                h == loc.now.hour
                mi == loc.now.minute
                expected == IF h = 14 /\ mi < 30 THEN SLOT_10AM
                            ELSE IF h = 16 /\ mi >= 30 THEN SLOT_2PM
                            ELSE NoSlot
            IN  /\ loc.previous_slot = expected
                /\ (get_time_slot(loc.now) = SLOT_2PM) <=> (expected = SLOT_10AM)
                /\ (get_time_slot(loc.now) = SLOT_430PM) <=> (expected = SLOT_2PM)
                /\ loc.previous_data \in
                      {None} \cup {List(s.targets) :
                                      s \in {x \in store : x.time_slot = expected}}
                /\ expected = NoSlot =>
                      /\ loc.previous_data = None
                      /\ ~loc.is_comparative_report
                      /\ loc.report_data = loc.target_rpc_data
                      /\ \A i \in 1 .. Len(loc.report_data) :
                            /\ Get(loc.report_data[i], "RPC_pct") = None
                            /\ Get(loc.report_data[i], "Incoming_pct") = None
                            /\ Get(loc.report_data[i], "Converted_pct") = None

C7_Witness ==
    /\ pc[0] = "notify"
    /\ m[0].now = T(16, 30)
    /\ m[0].previous_slot = SLOT_2PM
    /\ m[0].previous_data = List(AfternoonData)
    /\ \E s \in store : s.time_slot = SLOT_10AM

C9_PercentageDifference ==
    (call.fn = "calculate_percentage_difference" /\ call.result # Pending) =>
        LET c == call.current_value
            p == call.previous_value
            x == call.result
        IN  /\ x.tag = "float"
            /\ x.den > 0
            /\ (p = 0 /\ c = 0) => x = F(0, 1)
            /\ (p = 0 /\ c # 0) => x = F(100, 1)
            /\ p # 0 => x.num * p = (c - p) * 100 * x.den
            /\ (c = 110 /\ p = 100) => x = F(10, 1)
            /\ (c = 90 /\ p = 100) => x = F(-10, 1)

C9_Witness ==
    /\ call.fn = "calculate_percentage_difference"
    /\ call.current_value = 5
    /\ call.previous_value = 0
    /\ call.result = F(100, 1)

\* Python's int() of a string of decimal digits; -1 for any other string.
RECURSIVE IntOf(_)
IntOf(str) ==
    IF str = <<>> THEN -1
    ELSE LET last == str[Len(str)]
             d == {k \in 0 .. 9 : Digit[k + 1] = last}
         IN  IF d = {} THEN -1
             ELSE IF Len(str) = 1 THEN MaxOf(d)
             ELSE LET head == IntOf(SubSeq(str, 1, Len(str) - 1))
                  IN  IF head < 0 THEN -1 ELSE 10 * head + MaxOf(d)

\* C10: get_time_slot gives "10AM" iff hour = 10 and minute < 30, "2PM" iff
\* hour = 14 and minute < 30, "4:30PM" iff hour = 16 and minute >= 30, and
\* otherwise the label "{hour}:{minute}", which is none of the three.
C10_TimeSlot ==
    (call.fn = "get_time_slot" /\ call.result # <<>>) =>
        LET h == call.run_time.hour
            mi == call.run_time.minute
            label == call.result
            colon == {k \in 1 .. Len(label) : label[k] = ":"}
        IN  /\ (label = SLOT_10AM) <=> (h = 10 /\ mi < 30)
            /\ (label = SLOT_2PM) <=> (h = 14 /\ mi < 30)
            /\ (label = SLOT_430PM) <=> (h = 16 /\ mi >= 30)
            /\ label \notin NamedSlots =>
                  /\ Cardinality(colon) = 1
                  /\ \A k \in colon :
                        /\ IntOf(SubSeq(label, 1, k - 1)) = h
                        /\ IntOf(SubSeq(label, k + 1, Len(label))) = mi
                        /\ k - 1 = (IF h < 10 THEN 1 ELSE 2)
                        /\ Len(label) - k = (IF mi < 10 THEN 1 ELSE 2)

C10_Witness ==
    /\ call.fn = "get_time_slot"
    /\ call.run_time = T(10, 30)
    /\ call.result = <<"1", "0", ":", "3", "0">>

\* The snapshot save_report_data builds for run r.
SnapshotOf(r) ==
    Snapshot(get_time_slot(m[r].now), m[r].now, m[r].target_rpc_data)

\* Run r takes its save step.
Saves(r) == pc[r] = "save" /\ pc'[r] # "save"

\* C11: the store holds at most one snapshot per time_slot; the snapshot of
\* a slot changes only by the successful upsert of a run classified into
\* that slot and is then that run's extraction (last write wins); putting
\* the same snapshot again leaves the store unchanged.
C11_OneSnapshotPerSlot ==
    /\ [](/\ \A s, t \in store : s.time_slot = t.time_slot => s = t
          /\ \A s \in store : Upsert(store, s) = store
          /\ \A r \in Runs :
                pc[r] = "save" =>
                    Upsert(Upsert(store, SnapshotOf(r)), SnapshotOf(r))
                        = Upsert(store, SnapshotOf(r)))
    /\ [][/\ \A r \in Runs :
                (Saves(r) /\ "persist" \in done'[r]) =>
                    Select(store', get_time_slot(m[r].now)) = {SnapshotOf(r)}
          /\ \A s \in store' \ store :
                \E r \in Runs :
                    Saves(r) /\ "persist" \in done'[r] /\ s = SnapshotOf(r)
         ]_vars

C11_Witness ==
    /\ pc[0] = "returned"
    /\ "persist" \in done[0]
    /\ m[0].now = T(10, 29)
    /\ Cardinality(store) = 3
    /\ Select(store, SLOT_10AM) = {Snapshot(SLOT_10AM, T(10, 29), AfternoonData)}

\* C12: no step deletes the snapshot of a slot; the upsert of a run leaves
\* the snapshot of every slot other than the run's own as it was; every
\* other step, the read of the previous snapshot included, leaves the
\* store unchanged.
C12_OtherSlotsUntouched ==
    [][/\ \A s \in store : Select(store', s.time_slot) # {}
       /\ \A r \in Runs :
             Saves(r) =>
                 \A s \in store :
                     s.time_slot # get_time_slot(m[r].now) => s \in store'
       /\ (\A r \in Runs : ~Saves(r)) => store' = store
      ]_vars

C12_Witness ==
    /\ pc[0] = "returned"
    /\ "persist" \in done[0]
    /\ Truthy(m[0].previous_data)
    /\ m[0].now = T(16, 30)
    /\ Select(store, SLOT_10AM) # {}
    /\ Select(store, SLOT_2PM) # {}

\* What a reader of the run's outcome sees besides the data and the time:
\* the keys and flags of last_run_result and the template of the report.
Metadata(result, loc) ==
    [keys |-> DOMAIN result, success |-> result.success,
     is_comparative |-> result.is_comparative, message |-> loc.message]

\* The metadata of an ordinary non-comparative run, such as a 10AM run.
OrdinaryMetadata ==
    [keys |-> DOMAIN SuccessResult(0, NoLocals), success |-> TRUE,
     is_comparative |-> FALSE, message |-> "Ringba Report"]

\* Run r built its report in a comparison branch without previous data.
Degraded(r) ==
    /\ "compare" \in done[r]
    /\ ComparisonBranch(m[r].now) # NoSlot
    /\ ~Truthy(m[r].previous_data)

\* C13: a 2PM or 4:30PM run that finds no previous snapshot reports
\* non-comparatively and its output metadata flags the degradation: it
\* differs from the metadata of an ordinary non-comparative run.
C13_DegradationFlagged ==
    \A r \in Runs :
        Degraded(r) =>
            /\ ~m[r].is_comparative_report
            /\ m[r].report_data = m[r].target_rpc_data
            /\ Metadata(SuccessResult(r, m[r]), m[r]) # OrdinaryMetadata

(***************************************************************************)
(* Extraction: the CSV parsing of get_csv_values() and read_csv_data(),    *)
(* and the DOM extractors of playwright_bot.py and ringba_bot.py.          *)
(* A CSV is the sequence of its data rows as pandas.read_csv gives them,   *)
(* under the columns Target, RPC, Incoming, Converted: a cell is NaN or a  *)
(* string; target names are opaque, RPC strings are parsed by character.   *)
(***************************************************************************)
NaN == [tag |-> "NaN"]
Cell(s) == [tag |-> "str", s |-> s]

\* pd.isna(cell)
isna(cell) == cell.tag = "NaN"

\* .replace('$', '').replace(',', '')
CleanRpc(str) ==
    LET keep(ch) == ch \notin {"$", ","}
    IN  SelectSeq(str, keep)

\* The strings float() / pd.to_numeric accept, among those of the model:
\* digits with at most one decimal point.
IsFloatLiteral(str) ==
    /\ \A k \in 1 .. Len(str) :
          str[k] \in {Digit[d] : d \in DOMAIN Digit} \cup {"."}
    /\ Cardinality({k \in 1 .. Len(str) : str[k] = "."}) <= 1
    /\ \E k \in 1 .. Len(str) : str[k] # "."

RECURSIVE Pow10(_)
Pow10(k) == IF k = 0 THEN 1 ELSE 10 * Pow10(k - 1)

\* float(str) of such a string.
ParseFloat(str) ==
    LET isDigit(ch) == ch # "."
        dots == {k \in 1 .. Len(str) : str[k] = "."}
        decimals == IF dots = {} THEN 0
                    ELSE Len(str) - (CHOOSE k \in dots : TRUE)
    IN  Float(IntOf(SelectSeq(str, isDigit)), Pow10(decimals))

\* An amount in cents.
ToCents(f) == (f.num * 100) \div f.den

TotalsName == "Totals (all targets average)"
BlankNames == {"", " "}

\* if pd.isna(target_name) or str(target_name).lower() == 'nan'
\*    or str(target_name).strip() == '': the sentinel name
TargetName(cell) ==
    IF isna(cell) \/ cell.s \in BlankNames \/ cell.s = "nan"
    THEN TotalsName ELSE cell.s

\* get_csv_values, from the cleaning of the RPC column to target_rpc_data:
\* to_numeric(errors='coerce'), dropna on the RPC column, one row each.
\* The empty result stands for df.empty, which takes the retry code.
ParseExport(csv) ==
    LET numeric(row) ==
            ~isna(row.RPC) /\ IsFloatLiteral(CleanRpc(row.RPC.s))
        df == SelectSeq(csv, numeric)
    IN  [k \in 1 .. Len(df) |->
            Row(TargetName(df[k].Target),
                ToCents(ParseFloat(CleanRpc(df[k].RPC.s))),
                df[k].Incoming, df[k].Converted)]

\* read_csv_data: the loop over the rows.
read_csv_data(csv) ==
    LET kept(row) ==
            /\ ~(isna(row.Target) \/ isna(row.RPC))
            /\ IsFloatLiteral(CleanRpc(row.RPC.s))
        data == SelectSeq(csv, kept)
    IN  [k \in 1 .. Len(data) |->
            Row(TargetName(data[k].Target),
                ToCents(ParseFloat(CleanRpc(data[k].RPC.s))),
                data[k].Incoming, data[k].Converted)]

\* A row of the reporting table as the DOM extractors return it.
DomRow(t, rpc) == [Target |-> t, RPC |-> rpc]

\* playwright_bot.py: mock_data
MockData ==
    <<DomRow("Campaign 1", 1575), DomRow("Campaign 2", 825),
      DomRow("Campaign 3", 2150), DomRow("Campaign 4", 1180),
      DomRow("Campaign 5", 970)>>

\* playwright_bot.extract_target_rpc_data: page.evaluate gives the rows the
\* script found (none when no strategy matched), or raises.
playwright_bot_extract_target_rpc_data(page, matched, raised) ==
    IF raised THEN <<>>
    ELSE LET data == IF matched THEN page ELSE <<>>
         IN  IF data # <<>> THEN data ELSE MockData

\* ringba_bot.extract_target_rpc_data: the rows of the first method that
\* finds any, or the empty list; an exception gives the empty list.
ringba_bot_extract_target_rpc_data(page, matched, raised) ==
    IF raised THEN <<>>
    ELSE IF matched THEN page ELSE <<>>

RpcCells ==
    {Cell(<<"$", "1", "5", ".", "7", "5">>), Cell(<<"$", "8", ".", "0", "0">>),
     Cell(<<"-">>), NaN}
TargetCells == {Cell("A"), Cell(" "), NaN}
CsvRows ==
    {Row(t, rpc, c[1], c[2]) :
        t \in TargetCells, rpc \in RpcCells, c \in {<<120, 30>>, <<5, 1>>}}
DomRows == {DomRow("A", 1575), DomRow("B", 800)}

SeqsUpTo(S, n) == UNION {[1 .. k -> S] : k \in 0 .. n}

ExtractInit ==
    /\ IdleProgram
    /\ \/ \E fn \in {"playwright_bot.extract_target_rpc_data",
                     "ringba_bot.extract_target_rpc_data"},
             page \in SeqsUpTo(DomRows, MaxRows),
             matched \in BOOLEAN, raised \in BOOLEAN :
            call = [fn |-> fn, page |-> page, matched |-> matched,
                    raised |-> raised, result |-> Pending]
       \/ \E fn \in {"get_csv_values", "read_csv_data"},
             csv \in SeqsUpTo(CsvRows, MaxRows) :
            call = [fn |-> fn, csv |-> csv, result |-> Pending]

CallExtractPlaywright ==
    /\ call.fn = "playwright_bot.extract_target_rpc_data"
    /\ call.result = Pending
    /\ call' = [call EXCEPT !.result =
                   List(playwright_bot_extract_target_rpc_data(
                            call.page, call.matched, call.raised))]
    /\ UNCHANGED progVars

CallExtractSelenium ==
    /\ call.fn = "ringba_bot.extract_target_rpc_data"
    /\ call.result = Pending
    /\ call' = [call EXCEPT !.result =
                   List(ringba_bot_extract_target_rpc_data(
                            call.page, call.matched, call.raised))]
    /\ UNCHANGED progVars

CallParseExport ==
    /\ call.fn = "get_csv_values"
    /\ call.result = Pending
    /\ call' = [call EXCEPT !.result = List(ParseExport(call.csv))]
    /\ UNCHANGED progVars

CallReadCsv ==
    /\ call.fn = "read_csv_data"
    /\ call.result = Pending
    /\ call' = [call EXCEPT !.result = List(read_csv_data(call.csv))]
    /\ UNCHANGED progVars

ExtractNext ==
    \/ CallExtractPlaywright
    \/ CallExtractSelenium
    \/ CallParseExport
    \/ CallReadCsv

ExtractSpec == ExtractInit /\ [][ExtractNext]_vars

\* The call of an extractor has returned.
Extracted == call.fn # "none" /\ call.result # Pending /\ call.result.tag = "list"

\* C14: an extractor returns only rows read from its source, and the empty
\* sequence when no strategy yields a row.
C14_OnlyRowsOfTheSource ==
    (Extracted /\ "page" \in DOMAIN call) =>
        LET result == call.result.items
            found == IF call.matched /\ ~call.raised THEN call.page ELSE <<>>
        IN  /\ \A k \in 1 .. Len(result) :
                  \E j \in 1 .. Len(call.page) : result[k] = call.page[j]
            /\ found = <<>> => result = <<>>

\* The rows of a CSV whose RPC cell parses as a number.
Parseable(csv) ==
    LET ok(row) == ~isna(row.RPC) /\ IsFloatLiteral(CleanRpc(row.RPC.s))
    IN  SelectSeq(csv, ok)

\* C15: CSV parsing yields one row per source row with a parseable RPC, in
\* order, a blank or NaN Target replaced by "Totals (all targets average)";
\* for read_csv_data and for the parsing inside get_csv_values.
C15_BlankTargetKept ==
    (Extracted /\ "csv" \in DOMAIN call) =>
        LET result == call.result.items
            src == Parseable(call.csv)
        IN  /\ Len(result) = Len(src)
            /\ \A k \in 1 .. Len(result) :
                  /\ result[k].Target =
                        (IF isna(src[k].Target) \/ src[k].Target.s = " "
                         THEN "Totals (all targets average)"
                         ELSE src[k].Target.s)
                  /\ result[k].Incoming = src[k].Incoming
                  /\ result[k].Converted = src[k].Converted

(***************************************************************************)
(* send_slack_notification(message).  A message is the sequence of its     *)
(* lines (message.split("\n")); a line has a width in characters, and the  *)
(* empty line has width 0, so that "\n\n" is an empty line between two     *)
(* newlines.  The call keeps its position, the posts made so far with the  *)
(* answer of the webhook to each, and its return value.                    *)
(***************************************************************************)
SPLIT_LENGTH == 3000
chunk_size == 10

Line(kind, id, width) == [kind |-> kind, id |-> id, width |-> width]
EmptyLine == Line("empty", 0, 0)

RECURSIVE SumWidth(_)
SumWidth(lines) ==
    IF lines = <<>> THEN 0 ELSE Head(lines).width + SumWidth(Tail(lines))

\* len(message)
MessageLen(lines) == SumWidth(lines) + Len(lines) - 1

\* The report main() formats: the title (and, in a standard report, the
\* line "Current target RPC values:"), an empty line, one line per target,
\* each ended by "\n".
ReportMessage(n, width, titleWidth, comparative) ==
    (IF comparative THEN <<Line("header", 1, titleWidth)>>
     ELSE <<Line("header", 1, titleWidth), Line("header", 2, 26)>>)
    \o <<EmptyLine>>
    \o [k \in 1 .. n |-> Line("target", k, width)]
    \o <<EmptyLine>>

\* The error notification of main(): four lines, the second holding str(e).
ErrorMessage(width) ==
    <<Line("error", 1, 50), Line("error", 2, width), Line("error", 3, 30),
      Line("error", 4, 70)>>

\* header_parts = message.split("\n\n", 1); target_lines =
\* targets_part.split("\n")
SplitHeader(lines) ==
    LET cut == {j \in 2 .. Len(lines) - 1 : lines[j] = EmptyLine}
    IN  IF cut = {}
        THEN [header |-> lines, target_lines |-> <<EmptyLine>>]
        ELSE [header |-> SubSeq(lines, 1, MinOf(cut) - 1),
              target_lines |-> SubSeq(lines, MinOf(cut) + 1, Len(lines))]

\* Mutant: the chunks overlap by one line.
ChunkOverlapping(target_lines, i) ==
    SubSeq(target_lines, MaxOf({1, i}),
           MinOf({i + chunk_size, Len(target_lines)}))

\* chunk = target_lines[i:i + chunk_size]
Chunk(target_lines, i) ==
    SubSeq(target_lines, i + 1, MinOf({i + chunk_size, Len(target_lines)}))

\* chunk_message.strip() is empty
IsBlank(chunk) == \A k \in 1 .. Len(chunk) : chunk[k].width = 0

\* What requests.post may do: answer 200, answer another status, raise.
Responses == {"200", "500", "raise"}

SlackInputs ==
    {[message |-> ReportMessage(n, w, tw, c), webhook |-> u] :
        n \in 0 .. MaxLines, w \in {70, 125}, tw \in {40, 73},
        c \in BOOLEAN, u \in BOOLEAN}
    \cup {[message |-> ErrorMessage(w), webhook |-> u] :
            w \in {80, 3500}, u \in BOOLEAN}

SlackInit ==
    /\ IdleProgram
    /\ \E in \in SlackInputs :
          call = [fn |-> "send_slack_notification", message |-> in.message,
                  webhook |-> in.webhook, pc |-> "start", i |-> 0,
                  target_lines |-> <<>>, posted |-> <<>>, result |-> FALSE]

\* if not SLACK_WEBHOOK_URL: return False
SlackNoWebhook ==
    /\ call.fn = "send_slack_notification"
    /\ call.pc = "start"
    /\ ~call.webhook
    /\ call' = [call EXCEPT !.pc = "returned", !.result = FALSE]
    /\ UNCHANGED progVars

\* len(message) > 3000: the header is posted; any answer but 200 and any
\* exception end the call with False.
SlackPostHeader ==
    /\ call.fn = "send_slack_notification"
    /\ call.pc = "start"
    /\ call.webhook
    /\ MessageLen(call.message) > SPLIT_LENGTH
    /\ \E resp \in Responses :
          LET parts == SplitHeader(call.message)
              first_payload ==
                  [kind |-> "header", lines |-> parts.header,
                   count |-> Len(parts.target_lines), status |-> resp]
          IN  call' = [call EXCEPT
                          !.posted = Append(@, first_payload),
                          !.target_lines = parts.target_lines,
                          !.pc = IF resp = "200" THEN "chunks" ELSE "returned",
                          !.result = FALSE]
    /\ UNCHANGED progVars

\* for i in range(0, len(target_lines), chunk_size): a chunk that is not
\* blank is posted; a failed answer is logged, an exception ends the call.
SlackPostChunk ==
    /\ call.fn = "send_slack_notification"
    /\ call.pc = "chunks"
    /\ call.i < Len(call.target_lines)
    /\ LET chunk == Chunk(call.target_lines, call.i)
       IN  IF IsBlank(chunk)
           THEN call' = [call EXCEPT !.i = @ + chunk_size]
           ELSE \E resp \in Responses :
                  LET chunk_payload ==
                          [kind |-> "chunk", from |-> call.i + 1,
                           to |-> MinOf({call.i + chunk_size,
                                         Len(call.target_lines)}),
                           of |-> Len(call.target_lines),
                           lines |-> chunk, status |-> resp]
                  IN  call' = [call EXCEPT
                                  !.posted = Append(@, chunk_payload),
                                  !.i = @ + chunk_size,
                                  !.pc = IF resp = "raise" THEN "returned"
                                         ELSE "chunks"]
    /\ UNCHANGED progVars

\* The loop is over: return True
SlackChunksDone ==
    /\ call.fn = "send_slack_notification"
    /\ call.pc = "chunks"
    /\ call.i >= Len(call.target_lines)
    /\ call' = [call EXCEPT !.pc = "returned", !.result = TRUE]
    /\ UNCHANGED progVars

\* A message of at most 3000 characters: one post.
SlackPostWhole ==
    /\ call.fn = "send_slack_notification"
    /\ call.pc = "start"
    /\ call.webhook
    /\ MessageLen(call.message) <= SPLIT_LENGTH
    /\ \E resp \in Responses :
          call' = [call EXCEPT
                      !.posted = Append(@, [kind |-> "message",
                                            lines |-> call.message,
                                            status |-> resp]),
                      !.pc = "returned",
                      !.result = (resp = "200")]
    /\ UNCHANGED progVars

SlackNext ==
    \/ SlackNoWebhook
    \/ SlackPostHeader
    \/ SlackPostChunk
    \/ SlackChunksDone
    \/ SlackPostWhole

SlackSpec == SlackInit /\ [][SlackNext]_vars

\* The call of send_slack_notification has returned.
SlackReturned == call.fn = "send_slack_notification" /\ call.pc = "returned"

RECURSIVE LinesOf(_)
LinesOf(posts) ==
    IF posts = <<>> THEN <<>> ELSE Head(posts).lines \o LinesOf(Tail(posts))

IsTarget(line) == line.kind = "target"

\* The posts are those of the split of the message (header, then the target
\* lines in order, each once, in ceil(n / 10) chunks of at most 10 lines),
\* or the one post of a message that is not split.
PostedAsSplit ==
    LET targets == SelectSeq(call.message, IsTarget)
        n == Len(targets)
    IN  IF MessageLen(call.message) > SPLIT_LENGTH
        THEN /\ Len(call.posted) = 1 + (n + 9) \div 10
             /\ call.posted[1].kind = "header"
             /\ \A k \in 2 .. Len(call.posted) :
                   /\ call.posted[k].kind = "chunk"
                   /\ Len(call.posted[k].lines) <= 10
             /\ SelectSeq(LinesOf(Tail(call.posted)), IsTarget) = targets
             /\ SelectSeq(call.posted[1].lines, IsTarget) = <<>>
        ELSE /\ Len(call.posted) = 1
             /\ call.posted[1].kind = "message"
             /\ call.posted[1].lines = call.message

C17_NotifyAndPersistIndependent ==
    /\ [](\A r \in Runs :
             (pc[r] = "returned" /\ sent[r].data > 0) => "save" \in done[r])
    /\ [][\A r \in Runs :
             /\ Saves(r) => sent' = sent
             /\ (pc[r] = "notify" /\ pc'[r] # "notify") =>
                   (store' = store /\ pc'[r] = "save")]_vars

C17_Witness ==
    /\ pc[0] = "returned"
    /\ sent[0] = [error |-> 0, data |-> 1, delivered |-> 0]
    /\ "persist" \in done[0]

\* C18: a run whose extraction succeeded and whose upsert failed still
\* returns, and the failure shows: a degraded notification is sent or the
\* recorded outcome is not a plain success.
C18_SaveFailureSurfaced ==
    \A r \in Runs :
        (pc[r] = "returned" /\ "save" \in done[r] /\ "persist" \notin done[r])
            => \/ sent[r].error > 0
               \/ sent[r].data > 1
               \/ last_run_result # SuccessResult(r, m[r])

\* C19: the scheduler fires indefinitely: at every moment a run will be
\* triggered again, also after a run that failed.
C19_SchedulerFires == []<>(\E r \in Runs : pc[r] = "start")

\* C20: every answer to GET /health carries a JSON object with the last run
\* timestamp, the success flag and the comparative flag; before any run has
\* completed it says lastRun "Never" and success false.
C20_HealthAlwaysAnswers ==
    call.fn = "GET /health" =>
        /\ call.body # NoBody
        /\ {"lastRun", "success", "isComparative"} \subseteq DOMAIN call.body
        /\ call.unset => (call.body.lastRun = Never /\ ~call.body.success)

(***************************************************************************)
(* The rendering of a comparative report.                                  *)
(***************************************************************************)
\* The page of a finished GET / whose reads all met the dict of one run.
ServedPage(c) ==
    /\ c # NoCall
    /\ c.fn = "GET /"
    /\ c.at = "written"
    /\ Cardinality(c.reads) = 1

\* Every item of targets has exactly one entry in rendered.
RenderedOnce(targets, rendered) ==
    /\ Len(rendered) = Len(targets)
    /\ \A t \in {targets[k].Target : k \in 1 .. Len(targets)} :
          Cardinality({k \in 1 .. Len(rendered) : rendered[k].Target = t})
              = Cardinality({k \in 1 .. Len(targets) : targets[k].Target = t})

\* C21: in a comparative report every current target is rendered exactly
\* once, in the Slack message and in the table of the status page; a target
\* without a previous match is rendered with its current values and the
\* marker "new target, no comparison", never left out.
C21_EveryTargetRendered ==
    /\ \A r \in Runs :
          "compare" \in done[r] /\ m[r].is_comparative_report =>
              /\ RenderedOnce(m[r].target_rpc_data, m[r].lines)
              /\ \A k \in 1 .. Len(m[r].report_data) :
                    Get(m[r].report_data[k], "RPC_pct") = None =>
                        m[r].lines[k].text
                            = "values (new target, no comparison)"
    /\ ServedPage(call) /\ call.page.body = "Ringba Comparative Report" =>
          RenderedOnce(call.page.targets_displayed, call.page.rows)

(***************************************************************************)
(* The status request against the runs.                                    *)
(***************************************************************************)
\* C26: a finished status request, GET / or GET /health, shows the fields
\* of one run only, also when a run replaced last_run_result while the
\* request was served.
C26_OneRunPerRequest ==
    call # NoCall /\ call.fn \in {"GET /", "GET /health"}
                  /\ call.at = "written" =>
        Cardinality(call.reads) <= 1

(***************************************************************************)
(* The baseline of a comparative report.                                   *)
(***************************************************************************)
\* C22: the snapshot a comparative report is compared with was saved
\* earlier on the same calendar day as the run; a snapshot of a previous
\* day is never the baseline.
C22_BaselineOfTheSameDay ==
    call.fn = "main" /\ call.loc.is_comparative_report =>
        \A s \in Select(call.table, call.loc.previous_slot) :
            s.timestamp.day = call.now.day /\ Earlier(s.timestamp, call.now)

(***************************************************************************)
(* The browser sessions of the retries.                                    *)
(***************************************************************************)
\* C23: at most one browser session is open at a time: what an attempt
\* launched is closed before the next attempt launches.
C23_OneBrowserOpen ==
    call.fn = "setup_browser" => call.open <= 1

(***************************************************************************)
(* The time slot of a run.                                                 *)
(***************************************************************************)
\* C24: a run is classified into the time slot of the moment it was
\* triggered, also when its extraction ends after the end of the window.
C24_SlotOfTheTrigger ==
    call.fn = "main" /\ call.loc.now # None =>
        /\ get_time_slot(call.loc.now) = get_time_slot(call.triggered)
        /\ ComparisonBranch(call.loc.now) = ComparisonBranch(call.triggered)

(***************************************************************************)
(* The stages after the extraction.                                        *)
(***************************************************************************)
\* The order of main()'s stages once get_csv_values has returned rows.
Stage ==
    [compare |-> 1, notify |-> 2, save |-> 3, except |-> 4,
     notify_error |-> 5, finally |-> 6, returned |-> 7]

\* Once the extraction has returned rows, the run opens no further browser
\* session and does not call get_csv_values again, and it passes through
\* compare, notify and persist at most once each.
NoRerunAfterExtraction ==
    [][\A r \in Runs :
          m[r].target_rpc_data # <<>> =>
              /\ attempts'[r] = attempts[r]
              /\ frames'[r] = <<>>
              /\ ret'[r] = ret[r]
              /\ Stage[pc'[r]] >= Stage[pc[r]]
              /\ pc'[r] = pc[r] => (sent'[r] = sent[r] /\ store' = store)
              /\ sent'[r].data <= 1]_vars

\* C25: once the extraction has returned a non-empty result the run starts
\* no further browser session, calls get_csv_values no second time and
\* attempts compare, notify and persist at most once each; and a failure
\* of the comparison, the persistence or the report is surfaced: the run's
\* recorded outcome or a notification shows it.
C25_NoRerunFailuresSurfaced ==
    /\ NoRerunAfterExtraction
    /\ [](\A r \in Runs :
             (/\ pc[r] = "returned"
              /\ m[r].target_rpc_data # <<>>
              /\ \/ "compare" \notin done[r]
                 \/ sent[r].delivered < sent[r].data
                 \/ "save" \in done[r] /\ "persist" \notin done[r])
                 => \/ sent[r].error > 0
                    \/ last_run_result = FailureResult(r))

(***************************************************************************)
(* The export.                                                             *)
(***************************************************************************)
\* C27: the file the download-directory fallback returns is a .csv created
\* by the export click of the current attempt, never one left by an earlier
\* attempt or an earlier run.
C27_FallbackReturnsCurrentExport ==
    (/\ call.fn = "export_and_download_csv"
     /\ call.at = "process"
     /\ call.by = "glob") => call.csv_path = call.retry_count + 1

\* C28: the screenshots do not influence the pipeline: the search for the
\* export button finds the same element and tries the same strategies as
\* it does when every screenshot succeeds.
C28_ScreenshotsDoNotInfluence ==
    (call.fn = "export_and_download_csv" /\ call.at # "search") =>
        call.found = FindExportButton(call.page,
                         [before_export |-> TRUE, export_search |-> TRUE])

(***************************************************************************)
(* The session: navigation and login.                                      *)
(***************************************************************************)
\* C29: navigate_to_reporting aborts at the first failed liveness probe:
\* once a probe has failed, before or after the report URL was loaded, the
\* function has returned failure; it neither navigates again nor waits.
C29_AbortsAtFirstFailedProbe ==
    (call.fn = "login_to_ringba" /\ call.probe_failed) =>
        (call.at = "returned" /\ call.navigation_success = FALSE)

\* C30: login_to_ringba reports success exactly when the credentials were
\* submitted and either the Dashboard marker showed within the wait or,
\* after the wait, the URL is on ringba.com and does not contain "login".
C30_LoginSuccessIff ==
    (call.fn = "login_to_ringba" /\ call.at # "login") =>
        (call.login_success <=>
            /\ call.page.email_field
            /\ call.page.submitted
            /\ call.page.dashboard \/ LoggedInUrl(call.page))

(***************************************************************************)
(* The order of the fallbacks of the export.                               *)
(***************************************************************************)
\* The searches of s, as a set.
Searched(s) == {s[k] : k \in 1 .. Len(s)}

\* C31: the fallbacks of export_and_download_csv run one after another: the
\* scan of the buttons' texts only after the selectors found nothing, the
\* JavaScript scan only after the text scan found no button, the poll of
\* the download directory only after the capture of the download event
\* failed; the function stands in one strategy at a time.
C31_FallbacksInSequence ==
    /\ [](call.fn = "export_and_download_csv" =>
            LET found == call.found
            IN  /\ "buttons" \in Searched(found.searched) =>
                       /\ ~call.page.selector
                       /\ found.export_button # "selector"
                /\ "javascript" \in Searched(found.searched) =>
                       /\ ~call.page.selector
                       /\ found.export_button \notin {"selector", "button"}
                       /\ found.searched[Len(found.searched)] = "javascript"
                /\ found.searched # <<>> => found.searched[1] = "selectors")
    /\ [][call.fn = "export_and_download_csv" =>
            /\ call'.at = "alternative" =>
                  /\ call.at = "expect_download"
                  /\ call'.downloads = call.downloads
                  /\ call'.csv_path = None
            /\ call'.by = "glob" /\ call.by # "glob" =>
                  call.at = "alternative"
            /\ call'.at = "expect_download" =>
                  call'.found.export_button # "none"]_vars

C31_Witness ==
    /\ call.fn = "export_and_download_csv"
    /\ call.found.searched = <<"selectors", "buttons", "javascript">>
    /\ call.found.export_button = "xpath"
    /\ call.by = "glob"

(***************************************************************************)
(* The resolution of the columns of the CSV.                               *)
(***************************************************************************)
MaxCols == 3

\* str.lower(), on the letters of the headers of the model.
lower(str) ==
    LET low(ch) == CASE ch = "A" -> "a" [] ch = "C" -> "c" [] ch = "D" -> "d"
                     [] ch = "I" -> "i" [] ch = "N" -> "n" [] ch = "P" -> "p"
                     [] ch = "R" -> "r" [] ch = "T" -> "t" [] ch = "V" -> "v"
                     [] OTHER -> ch
    IN  [k \in 1 .. Len(str) |-> low(str[k])]

\* word in str
Contains(str, word) ==
    \E k \in 1 .. Len(str) - Len(word) + 1 :
        SubSeq(str, k, k + Len(word) - 1) = word

target == <<"t", "a", "r", "g", "e", "t">>
rpc == <<"r", "p", "c">>

\* The headers an export can carry.
ColumnNames ==
    {<<"T", "a", "r", "g", "e", "t">>,
     <<"T", "a", "r", "g", "e", "t", " ", "I", "D">>,
     <<"R", "P", "C">>,
     <<"A", "v", "g", " ", "R", "P", "C">>,
     <<"N", "a", "m", "e">>,
     <<"R", "e", "v", "e", "n", "u", "e">>}

\* df.columns: distinct names, in the order of the file.
Headers ==
    {h \in UNION {[1 .. n -> ColumnNames] : n \in 1 .. MaxCols} :
        \A j, k \in 1 .. Len(h) : j # k => h[j] # h[k]}

\* target_column = None
NoColumn == <<>>

\* for col in df.columns: if <test>: column = col; break.  The first of
\* the columns at the positions hits, or None.
FirstColumn(columns, hits) ==
    IF hits = {} THEN NoColumn ELSE columns[MinOf(hits)]

\* read_csv_data: the loop of the exact matches has no break, so the last
\* exact match stays; the partial match runs while the column is None.
ReadCsvColumns(columns) ==
    LET exact(word) ==
            LET hits == {k \in 1 .. Len(columns) : lower(columns[k]) = word}
            IN  IF hits = {} THEN NoColumn ELSE columns[MaxOf(hits)]
        partial(word) ==
            FirstColumn(columns, {k \in 1 .. Len(columns) :
                                     Contains(lower(columns[k]), word)})
        resolve(word) ==
            IF exact(word) # NoColumn THEN exact(word) ELSE partial(word)
    IN  [target_column |-> resolve(target), rpc_column |-> resolve(rpc)]

\* get_csv_values: the target column is the first whose name is one of four
\* names, else the first column; the RPC column is the first whose name
\* contains 'rpc', else the first that contains an alternative keyword.
GetCsvColumns(columns) ==
    LET named(col) ==
            lower(col) \in {target, <<"c", "a", "m", "p", "a", "i", "g", "n">>,
                            <<"c", "a", "m", "p", "a", "i", "g", "n", " ",
                              "n", "a", "m", "e">>,
                            <<"n", "a", "m", "e">>}
        hasRpc(col) == Contains(lower(col), rpc)
        alternative(col) ==
            \E keyword \in {<<"r", "e", "v", "e", "n", "u", "e">>,
                            <<"p", "r", "o", "f", "i", "t">>,
                            <<"e", "a", "r", "n", "i", "n", "g">>,
                            <<"v", "a", "l", "u", "e">>} :
                Contains(lower(col), keyword)
        where(test(_)) == {k \in 1 .. Len(columns) : test(columns[k])}
        target_column == FirstColumn(columns, where(named))
        rpc_column == FirstColumn(columns, where(hasRpc))
    IN  [target_column |-> IF target_column # NoColumn THEN target_column
                           ELSE columns[1],
         rpc_column |-> IF rpc_column # NoColumn THEN rpc_column
                        ELSE FirstColumn(columns, where(alternative))]

ColumnInit ==
    /\ IdleProgram
    /\ \E fn \in {"read_csv_data", "get_csv_values"}, columns \in Headers :
          call = [fn |-> fn, at |-> "columns", columns |-> columns,
                  target_column |-> NoColumn, rpc_column |-> NoColumn]

ResolveReadCsv ==
    /\ call.fn = "read_csv_data"
    /\ call.at = "columns"
    /\ LET found == ReadCsvColumns(call.columns)
       IN  call' = [call EXCEPT
                      !.target_column = found.target_column,
                      !.rpc_column = found.rpc_column,
                      !.at = IF NoColumn \in {found.target_column,
                                              found.rpc_column}
                             THEN "return []" ELSE "rows"]
    /\ UNCHANGED progVars

ResolveGetCsv ==
    /\ call.fn = "get_csv_values"
    /\ call.at = "columns"
    /\ LET found == GetCsvColumns(call.columns)
       IN  call' = [call EXCEPT
                      !.target_column = found.target_column,
                      !.rpc_column = found.rpc_column,
                      !.at = IF found.rpc_column = NoColumn
                             THEN "retry" ELSE "rows"]
    /\ UNCHANGED progVars

ColumnSpec == ColumnInit /\ [][ResolveReadCsv \/ ResolveGetCsv]_vars

\* A column of the file is named exactly word, whatever the case.
HasExact(word) ==
    \E k \in 1 .. Len(call.columns) : lower(call.columns[k]) = word

\* C32: the resolution of the columns prefers the exact header: when a
\* column is named exactly target (or rpc), whatever the case, it is the
\* Target (or RPC) column chosen, even after a column whose name only
\* contains the word.
C32_ExactHeaderPreferred ==
    (call.fn \in {"read_csv_data", "get_csv_values"} /\ call.at # "columns") =>
        /\ HasExact(target) => lower(call.target_column) = target
        /\ HasExact(rpc) => lower(call.rpc_column) = rpc

\* The same, of read_csv_data alone.
ReadCsvPrefersExact ==
    (call.fn = "read_csv_data" /\ call.at # "columns") =>
        /\ HasExact(target) => lower(call.target_column) = target
        /\ HasExact(rpc) => lower(call.rpc_column) = rpc

(***************************************************************************)
(* create_comparative_report on rows that share a name.                    *)
(***************************************************************************)
\* The rows of the snapshots compared: two names, two sets of values.
CompareRows ==
    {Row(t, v[1], v[2], v[3]) :
        t \in {"Acme", "Beta"}, v \in {<<1000, 50, 5>>, <<1250, 40, 4>>}}

CompareInit ==
    /\ IdleProgram
    /\ \E current_data \in SeqsUpTo(CompareRows, MaxRows),
          previous_data \in SeqsUpTo(CompareRows, MaxRows) :
          call = [fn |-> "create_comparative_report",
                  current_data |-> current_data,
                  previous_data |-> previous_data,
                  result |-> Pending]

CallCompare ==
    /\ call.fn = "create_comparative_report"
    /\ call.result = Pending
    /\ call' = [call EXCEPT !.result =
                   List(create_comparative_report(
                            call.current_data, List(call.previous_data)))]
    /\ UNCHANGED progVars

CompareSpec == CompareInit /\ [][CallCompare]_vars

\* The positions of the rows of data named name.
Named(data, name) == {j \in 1 .. Len(data) : data[j].Target = name}

\* C33: create_comparative_report matches a current row with the previous
\* snapshot by its target name; of several previous rows of one name the
\* last is the base of the deltas; every current row, also one that shares
\* its name with another, gives its own row of the report.
C33_LastPreviousRowWins ==
    (call.fn = "create_comparative_report" /\ call.result # Pending) =>
        LET current == call.current_data
            previous == call.previous_data
            report == call.result.items
        IN  /\ Len(report) = Len(current)
            /\ \A i \in 1 .. Len(current) :
                  /\ report[i].Target = current[i].Target
                  /\ report[i].RPC = current[i].RPC
                  /\ report[i].Incoming = current[i].Incoming
                  /\ report[i].Converted = current[i].Converted
                  /\ previous # <<>> =>
                        LET hits == Named(previous, current[i].Target)
                        IN  IF hits = {}
                            THEN /\ report[i].RPC_pct = None
                                 /\ report[i].Incoming_pct = None
                                 /\ report[i].Converted_pct = None
                            ELSE LET base == previous[MaxOf(hits)]
                                 IN  /\ report[i].Previous_RPC = base.RPC
                                     /\ report[i].Previous_Incoming =
                                            base.Incoming
                                     /\ report[i].Previous_Converted =
                                            base.Converted
                                     /\ report[i].RPC_pct =
                                            calculate_percentage_difference(
                                                current[i].RPC, base.RPC)
                                     /\ report[i].Incoming_pct =
                                            calculate_percentage_difference(
                                                current[i].Incoming,
                                                base.Incoming)
                                     /\ report[i].Converted_pct =
                                            calculate_percentage_difference(
                                                current[i].Converted,
                                                base.Converted)

\* Two previous rows of one name with different values, two current rows of
\* that name, and a report of two rows on the base of the last previous row.
C33_Witness ==
    /\ call.fn = "create_comparative_report"
    /\ call.result # Pending
    /\ call.previous_data =
           <<Row("Acme", 1000, 50, 5), Row("Acme", 1250, 40, 4)>>
    /\ call.current_data =
           <<Row("Acme", 1000, 50, 5), Row("Acme", 1250, 40, 4)>>
    /\ Len(call.result.items) = 2
    /\ call.result.items[1].Previous_RPC = 1250
    /\ call.result.items[2].Previous_RPC = 1250

(***************************************************************************)
(* What a run persists.                                                    *)
(***************************************************************************)
\* The keys of an extracted row.
ExtractedKeys == {"Target", "RPC", "Incoming", "Converted"}

\* Every row of data has the keys of an extracted row and no other.
RawRows(data) == \A k \in 1 .. Len(data) : DOMAIN data[k] = ExtractedKeys

\* C34: the derived fields of a comparison are never persisted: every
\* snapshot of the store has rows of Target, RPC, Incoming and Converted
\* only; the snapshot a run upserts holds exactly the rows it extracted;
\* building the report leaves the extracted rows and the previous snapshot
\* as they were.
C34_DerivedFieldsNotPersisted ==
    /\ [](\A s \in store : RawRows(s.targets))
    /\ [][\A r \in Runs :
            /\ (Saves(r) /\ "persist" \in done'[r]) =>
                  \E s \in store' :
                      /\ s.time_slot = get_time_slot(m[r].now)
                      /\ s.targets = m[r].target_rpc_data
                      /\ RawRows(s.targets)
            /\ (pc[r] = "compare" /\ pc'[r] = "notify") =>
                  /\ m'[r].target_rpc_data = m[r].target_rpc_data
                  /\ RawRows(m'[r].target_rpc_data)
                  /\ store' = store
         ]_vars

\* A run that sent a comparative report with deltas and saved its rows.
C34_Witness ==
    /\ pc[0] = "returned"
    /\ "persist" \in done[0]
    /\ m[0].is_comparative_report
    /\ m[0].report_data # <<>>
    /\ "RPC_pct" \in DOMAIN m[0].report_data[1]
    /\ \E s \in store : /\ s.timestamp = m[0].now
                        /\ s.targets = m[0].target_rpc_data

(***************************************************************************)
(* The RPC of the rows extracted.                                          *)
(***************************************************************************)
\* JavaScript parseFloat(str): the number of the longest prefix that is a
\* decimal literal, NaN when there is none.
parseFloat(str) ==
    LET prefixes == {n \in 1 .. Len(str) : IsFloatLiteral(SubSeq(str, 1, n))}
    IN  IF prefixes = {} THEN NaN
        ELSE ParseFloat(SubSeq(str, 1, MaxOf(prefixes)))

\* playwright_bot.py, extractRowsData: the rows of the table with a target
\* name, an RPC text and an RPC that parseFloat reads.
extractRowsData(table) ==
    LET rpcValue(row) == parseFloat(CleanRpc(row.RPC.s))
        pushed(row) ==
            /\ row.Target.s # ""
            /\ row.RPC.s # <<>>
            /\ rpcValue(row) # NaN
        data == SelectSeq(table, pushed)
    IN  [k \in 1 .. Len(data) |->
            DomRow(data[k].Target.s, ToCents(rpcValue(data[k])))]

\* The rows of a reporting table: the trimmed texts of the two cells.
TableRows ==
    {[Target |-> Cell(t), RPC |-> Cell(text)] :
        t \in {"A", "B", ""},
        text \in {<<"$", "1", "5", ".", "7", "5">>, <<"$", "8", ".", "0", "0">>,
                  <<"$", "9", ".", "5", "0", "*">>, <<"-">>, <<>>}}

RpcInit ==
    /\ IdleProgram
    /\ \/ \E fn \in {"get_csv_values", "read_csv_data"},
             csv \in SeqsUpTo(CsvRows, MaxRows) :
            call = [fn |-> fn, csv |-> csv, result |-> Pending]
       \/ \E table \in SeqsUpTo(TableRows, MaxRows) :
            call = [fn |-> "playwright_bot.extract_target_rpc_data",
                    table |-> table, result |-> Pending]

\* extract_target_rpc_data on a page whose table the script finds.
CallExtractTable ==
    /\ call.fn = "playwright_bot.extract_target_rpc_data"
    /\ call.result = Pending
    /\ call' = [call EXCEPT !.result =
                   List(playwright_bot_extract_target_rpc_data(
                            extractRowsData(call.table), TRUE, FALSE))]
    /\ UNCHANGED progVars

RpcSpec ==
    RpcInit /\ [][CallParseExport \/ CallReadCsv \/ CallExtractTable]_vars

\* The RPC cell of a source row holds a number once $ and , are removed.
HasRpc(row) == ~isna(row.RPC) /\ IsFloatLiteral(CleanRpc(row.RPC.s))

\* The rows of result are rows of source, in its order, each with the
\* number of its own RPC cell.
OwnRpc(result, source) ==
    \E f \in [1 .. Len(result) -> 1 .. Len(source)] :
        /\ \A j, k \in 1 .. Len(result) : j < k => f[j] < f[k]
        /\ \A k \in 1 .. Len(result) :
              /\ HasRpc(source[f[k]])
              /\ result[k].RPC =
                     ToCents(ParseFloat(CleanRpc(source[f[k]].RPC.s)))
              /\ result[k].Target = TargetName(source[f[k]].Target)

\* C35: no extracted row has a missing or substituted RPC: a source row
\* whose RPC cell is empty or is not a number once $ and , are removed is
\* dropped, and the RPC of every row returned is the number of that row's
\* own RPC cell.
C35_RpcOfItsOwnCell ==
    /\ (call.fn \in {"get_csv_values", "read_csv_data"}
           /\ "csv" \in DOMAIN call /\ call.result # Pending) =>
            OwnRpc(call.result.items, call.csv)
    /\ (call.fn = "playwright_bot.extract_target_rpc_data"
           /\ "table" \in DOMAIN call /\ call.result # Pending) =>
            OwnRpc(call.result.items, call.table)

\* The same, of the two parsers of the CSV alone.
CsvRpcOfItsOwnCell ==
    (call.fn \in {"get_csv_values", "read_csv_data"}
       /\ "csv" \in DOMAIN call /\ call.result # Pending) =>
        OwnRpc(call.result.items, call.csv)

(***************************************************************************)
(* The notifications of one run.                                           *)
(***************************************************************************)
\* What run r has handed to the sink: a report, split or not, counts once.
Handed(r) == sent[r].data + sent[r].error

\* C36: a run hands the sink either one data report or one error
\* notification: never both, never two of a kind, and one of the two by
\* the time main() returns; what was handed is not taken back.
C36_OneNotificationPerRun ==
    /\ [](\A r \in Runs :
             /\ Handed(r) <= 1
             /\ pc[r] = "returned" => Handed(r) = 1)
    /\ [][\A r \in Runs :
             /\ sent'[r].data >= sent[r].data
             /\ sent'[r].error >= sent[r].error
             /\ Handed(r) = 1 => sent'[r].data = sent[r].data
                                  /\ sent'[r].error = sent[r].error]_vars

\* A run that extracted rows, failed while it built its report and handed
\* the sink the error notification alone.
C36_Witness ==
    /\ pc[0] = "returned"
    /\ m[0].target_rpc_data # <<>>
    /\ "compare" \notin done[0]
    /\ sent[0].data = 0
    /\ sent[0].error = 1

(***************************************************************************)
(* The browsers and the Playwright drivers of one run of main().           *)
(*   out   "none" inside setup_browser, "returned" when it has handed a    *)
(*         browser to get_csv_values, "rows" and "return []" when          *)
(*         get_csv_values has its result, "closed" after its finally,      *)
(*         "main returned" after main's finally                            *)
(*   held  the local browser of the frame of get_csv_values is set         *)
(***************************************************************************)
\* main(): playwright = await async_playwright().start(), then the call of
\* get_csv_values(start_fresh=True), which calls setup_browser.
ResourceInit ==
    /\ IdleProgram
    /\ call = [fn |-> "setup_browser", retry_count |-> 0, attempt |-> 0,
               at |-> 1, open |-> 0, started |-> 1, out |-> "none",
               held |-> FALSE]

\* get_csv_values with the browser of setup_browser: the session gives the
\* rows; or it fails and the retry branch closes the browser and calls
\* get_csv_values again; or it fails at the last retry and returns [].
BrowserSession ==
    /\ call.fn = "setup_browser"
    /\ call.out = "returned"
    /\ \/ call' = [call EXCEPT !.out = "rows", !.held = TRUE]
       \/ /\ call.retry_count < MAX_RETRIES
          /\ call' = [call EXCEPT !.open = @ - 1, !.retry_count = @ + 1,
                                  !.attempt = 0, !.at = 1, !.out = "none"]
       \/ /\ call.retry_count = MAX_RETRIES
          /\ call' = [call EXCEPT !.out = "return []", !.held = TRUE]
    /\ UNCHANGED progVars

\* finally of get_csv_values: if start_fresh and browser: browser.close().
\* The frames below closed their browser in the retry branch, or never had
\* one: setup_browser raised before the assignment.
CloseBrowser ==
    /\ call.fn = "setup_browser"
    /\ "held" \in DOMAIN call
    /\ call.out \in {"rows", "return []"}
    /\ call' = [call EXCEPT !.open = IF call.held THEN @ - 1 ELSE @,
                            !.out = "closed"]
    /\ UNCHANGED progVars

\* finally of main(): await playwright.stop(), on the global of main().
StopPlaywright ==
    /\ call.fn = "setup_browser"
    /\ call.out = "closed"
    /\ call' = [call EXCEPT !.started = @ - 1, !.out = "main returned"]
    /\ UNCHANGED progVars

ResourceSpec ==
    ResourceInit
        /\ [][setup_browser \/ BrowserSession \/ CloseBrowser
                \/ StopPlaywright]_vars

\* C37: no browser resource outlives its run: when main() returns, every
\* browser launched and every Playwright driver started during the run is
\* closed or stopped, those of failed attempts included.
C37_NothingOutlivesTheRun ==
    (call.fn = "setup_browser" /\ call.out = "main returned") =>
        /\ call.open = 0
        /\ call.started = 0

====
